---- MODULE Spec2Model ----
(***************************************************************************)
(* A model of the Coatl compiler pipeline (euxaristia/Coatl):              *)
(*   tools/coatl_subset_to_ir.py   the frontend (Parser)                   *)
(*   tools/ir_to_x86_64_asm.py     the x86-64 codegen (FnEmitter)          *)
(* The module holds one group of variables per part of the pipeline and    *)
(* one specification per group; a group that a specification does not      *)
(* exercise rests at its idle value.                                       *)
(***************************************************************************)
EXTENDS Integers, Sequences, FiniteSets, TLC

VARIABLES
  \* ---- Parser: the typed binary-operator loops (parse_cmp/add/mul_typed)
  level,        \* which loop is running: "cmp", "add" or "mul"
  left_ty,      \* the loop's left_ty
  rest_tys,     \* types of the operands the loop has still to parse
  right_ty,     \* the right_ty of the last iteration ("none" before the first)
  prev_left_ty, \* the left_ty the last iteration resolved against
  bin_ty,       \* the bin_ty of the last iteration ("none" before the first)
  annot,        \* the type atom written into the last (binary ...) node, "" if none
  \* ---- FnEmitter: emission of one function body (emit_function)
  pc,           \* "idle", "body", "at_call" (the call instruction has just been
                \* emitted), "exit" (the body is emitted) or "LowerError"
  todo,         \* what the pending calls of emit_stmt / emit_expr / emit_call
                \* still have to do, innermost first
  stack_depth,  \* FnEmitter.stack_depth
  site,         \* at the call instruction: the callee, the argument count, the
                \* depth on entry to emit_call, need_pad and stack_n of this call
  reg_net,      \* over the calls emitted so far: register-class arguments
                \* (reg_int_n + reg_float_n) minus registers popped
  mismatches,   \* the calls met so far whose argument count is not the
                \* callee's parameter count
  stmts_left,   \* statements the body may still hold (MaxStmts less those met)
  nodes_left,   \* binary and call nodes the statement's expression may still hold
  \* ---- the code emit_call emits for one call, run on the machine
  param_types,  \* emit_call's param_types (the callee's signature)
  cpc,          \* "idle", "pad", "args", "pops", "at_call"
  mstack,       \* the machine stack below the frame, top first: argument
                \* values (the argument's position, 1-based), Pad, Outer
  int_regs,     \* rdi, rsi, rdx, rcx, r8, r9: the value each holds (Junk if none)
  xmm_regs,     \* xmm0..xmm7 likewise
  args_left,    \* arguments the reversed loop has still to evaluate
  next_param,   \* the index i of the pop loop (1-based)
  curr_int,     \* emit_call's curr_int
  curr_float,   \* emit_call's curr_float
  eval_log,     \* the arguments in the order their code ran
  \* ---- the prologue emit_function emits, run on the machine
  params,       \* self.params: the parameter types, in order
  ppc,          \* "idle", "spill" (first loop), "stack" (second loop), "body"
  frame,        \* frame[i]: the place the slot of parameter i was last filled
                \* from (IntReg(k), XmmReg(j), CallerSlot(t)), Junk if never
  p_i,          \* the index i of the running loop (1-based)
  p_curr_int,   \* emit_function's curr_int
  p_curr_float, \* emit_function's curr_float
  \* ---- the struct declaration the frontend has parsed
  struct_fields, \* self.struct_fields[S]: the field names of struct S, in order
  \* ---- parse_fn_ir on a function declared to return S
  decl,         \* the declared parameter types, in order ("S" is the struct)
  kpc,          \* "idle", "params", "companions", "done"
  decl_i,       \* the declared parameter parse_params_ir reads next
  params_list,  \* parse_params_ir's params: the flattened parameter names
  param_types_list, \* parse_params_ir's param_types_list: <<name, type>> pairs
  out,          \* the functions parse_struct_return_fn_irs has emitted
  \* ---- a struct literal S { ... } being parsed
  ctx,          \* "let" (parse_struct_init_stmt_ir) or "return"
                \* (parse_struct_return_literal)
  lit,          \* the field names written in the literal, in order
  lpc,          \* "idle", "fields", "accepted", "ParseError"
  lit_i,        \* the field of the literal the loop reads next
  vals,         \* the dict vals: field name -> position of its expression
  lets,         \* the (let x__fld i32 e) statements emitted: <<fld, position>>
  \* ---- the compiled program  fn mk(a: T) -> S { [bump;] return S {...}; }
  \*      fn main() { let x: S = mk(arg); x.f = v; }  executed
  mk_param_ty,  \* T, the declared type of mk's parameter a
  arg,          \* the value of the argument of the call, as the two dwords
                \* [hi, lo] of a quadword
  bumps,        \* whether mk's body first runs
                \* __mem_store(0, __mem_load(0) + 1)
  ret_exprs,    \* the expression of each field in mk's return literal
  mem,          \* the word at offset 0 of __coatl_mem
  locals,       \* the slots x__f of main, in field order
  zpc,          \* "idle", "let", "after_let", "assigned"
  assigned,     \* the field x.f = v wrote, 0 before
  before,       \* locals just before x.f = v
  \* ---- a function body going through both stages
  source,       \* the source statements the frontend has still to parse
  ir,           \* the IR statements emitted and not yet lowered: [tag, expr],
                \* expr the node kinds in the order emit_expr meets them
  visiting,     \* the nodes of the statement being lowered, still to meet
  xpc,          \* "idle", "frontend", "backend", "lowered", "LowerError"
  \* ---- the string literals of a program: lowering, then the program running
  literals,     \* the tokens of the (string ...) nodes not yet collected
  str_tokens,   \* the keys of the dict str_tokens, in insertion order
  string_addrs, \* string_addrs[k]: the address of str_tokens[k]
  next_addr,    \* lower_ir_to_asm_text's next_addr
  gpc,          \* "idle", "collect", "assign", "run"
  coatl_mem,    \* the bytes of __coatl_mem at the interned addresses
  coatl_mem_inited, \* the guard word __coatl_mem_inited
  init_runs,    \* how often the string-writing block has run
  \* ---- link_single_obj on one relocatable object
  text,         \* the bytearray text
  bss_idx,      \* the section index of .bss, 0 when the object has none
  bss_size,     \* sh_size of .bss, 0 when the object has none
  bss_vaddr,    \* align_up(text_vaddr + len(text), 16), computed before the
                \* relocations are applied
  entry_name,   \* the --entry name
  relas_left,   \* how many more entries .rela.text may hold
  last,         \* the entry applied last: the entry, the text before it, the
                \* address sym_addr gave, the bytes packed and the outcome
  entry_addr,   \* what sym_addr gave for the entry symbol, Unresolved before
  phdr,         \* the program header written: [filesz, memsz]
  lkpc,         \* "idle", "relas", "entry", "write", "written", or the
                \* exception that ended the run
  \* ---- lower_ir_to_asm_text on an IR tree with one function of one statement
  root,         \* the root node: whether it is a list, its length and the
                \* heads of its first four children
  fn_head,      \* the head atom of the function node
  stmt,         \* the statement of the function's block
  opc,          \* "idle", "root", "functions", "body", "emitted", or the
                \* exception that ended the run
  lowered_ty,   \* the emit_binary_<ty> a binary node was lowered with
  skipped,      \* whether a list node was passed over without being lowered
  \* ---- names of one function through the frontend and the codegen
  body,         \* the statements of the function's block
  local_types,  \* the frontend's local_types: names declared so far
  slots,        \* the codegen's slots: names that have a stack slot
  n_i,          \* index of the next statement
  npc,          \* "idle", "parse", "collect", "emit", "lowered", or the
                \* exception that ended the run
  \* ---- FnEmitter.__init__: the frame of one function
  fn_params,    \* names of the parameters, in order
  fn_lets,      \* names of the lets of the block, in order
  fn_vars,      \* keys of self.vars
  var_off,      \* self.var_off
  stack_size,   \* self.stack_size
  f_i,          \* index into fn_params, then into fn_lets
  fpc,          \* "idle", "params", "lets", "layout", "laid"
  \* ---- parse_array_init_ir on let a : [T; N] = [V; M];
  size_tok,     \* the digits of N in the type
  count_tok,    \* the digits of M in the initializer
  arr_size,     \* arr_size
  arr_out,      \* the statements emitted so far
  arr_i,        \* i of for i in range(arr_size)
  apc,          \* "idle", "check", "sets", "done", "ParseError"
  \* ---- the emitted __fd_write
  iov_mem,      \* the lengths of the iovec entries in linear memory at iov_base
  iov_cnt,      \* the third argument
  r_edx,        \* register edx
  r_r10,        \* register r10d
  r_ebx,        \* register ebx
  writes,       \* the write syscalls issued: entry index, length, bytes returned
  nwritten,     \* the dword at nwritten_out, -1 before it is stored
  wpc,          \* "idle", "loop", "done", "ret"
  \* ---- the emitted __path_open
  path_len,     \* the fourth argument (ecx)
  po_eax,       \* eax in the copy loop: bytes copied so far
  buf_top,      \* highest offset from rsp written in the buffer, -1 if none
  nul_at,       \* offset of the NUL stored after the copy, -1 if none
  po_syscall,   \* whether openat was issued
  po_ret,       \* the value returned, -1 before the return
  opn_pc,       \* "idle", "check", "copy", "ret"
  \* ---- parse_program_ir over the functions of a program, then the codegen
  prog_fns,     \* the functions declared: name and return type
  saw_main,     \* saw_main
  ir_fns,       \* the names of the (fn ...) nodes emitted, in order
  prog_i,       \* index of the next declaration
  mpc,          \* "idle", "parse", "ParseError", "ir", "lowering", "LowerError"
  \* ---- the instructions emit_expr emits for one expression, executed
  bx_expr,      \* the expression
  bx_code,      \* the instructions still to execute
  bx_stack,     \* the quadwords pushed, the last one on top
  bx_rax,       \* eax
  bx_rcx,       \* ecx
  bx_rdi,       \* edi
  \* ---- (binary OP i64 (binary sub (int A) (int B)) (int_i64 V)), executed
  pm_expr,      \* OP, A, B and V
  pm_rax,       \* rax, as its high and low dwords
  pm_rcx,       \* rcx
  pm_stack,     \* the quadwords pushed
  pm_pc,        \* "idle", "lhs", "rhs", "op", "done"
  \* ---- the IR text from the frontend to the codegen's reader
  rt_prog,      \* the functions of the source program
  rt_text,      \* the IR text, a sequence of characters
  rt_i,         \* i of tokenize
  rt_toks,      \* toks of tokenize
  rt_root,      \* what parse_sexpr returned
  rt_fns,       \* what parse_fn returned for the children of (functions ...)
  rt_pc         \* "idle", "emit", "tokenize", "parse", "recover", "done", or the
                \* exception that ended the run

binopVars == <<level, left_ty, rest_tys, right_ty, prev_left_ty, bin_ty, annot>>

emitVars == <<pc, todo, stack_depth, site, reg_net, mismatches, stmts_left, nodes_left>>

callVars == <<param_types, cpc, mstack, int_regs, xmm_regs, args_left, next_param,
              curr_int, curr_float, eval_log>>

prologueVars == <<params, ppc, frame, p_i, p_curr_int, p_curr_float>>

companionVars == <<decl, kpc, decl_i, params_list, param_types_list, out>>

literalVars == <<ctx, lit, lpc, lit_i, vals, lets>>

scalarizeVars == <<mk_param_ty, arg, bumps, ret_exprs, mem, locals, zpc,
                   assigned, before>>

contractVars == <<source, ir, visiting, xpc>>

stringVars == <<literals, str_tokens, string_addrs, next_addr, gpc, coatl_mem,
                coatl_mem_inited, init_runs>>

linkVars == <<text, bss_idx, bss_size, bss_vaddr, entry_name, relas_left, last,
              entry_addr, phdr, lkpc>>

irVars == <<root, fn_head, stmt, opc, lowered_ty, skipped>>
nameVars == <<body, local_types, slots, n_i, npc>>
frameVars == <<fn_params, fn_lets, fn_vars, var_off, stack_size, f_i, fpc>>
arrayVars == <<size_tok, count_tok, arr_size, arr_out, arr_i, apc>>
fdwVars == <<iov_mem, iov_cnt, r_edx, r_r10, r_ebx, writes, nwritten, wpc>>
openVars == <<path_len, po_eax, buf_top, nul_at, po_syscall, po_ret, opn_pc>>
mainVars == <<prog_fns, saw_main, ir_fns, prog_i, mpc>>
bxVars == <<bx_expr, bx_code, bx_stack, bx_rax, bx_rcx, bx_rdi>>
promoVars == <<pm_expr, pm_rax, pm_rcx, pm_stack, pm_pc>>
roundVars == <<rt_prog, rt_text, rt_i, rt_toks, rt_root, rt_fns, rt_pc>>

vars == <<binopVars, emitVars, callVars, prologueVars, struct_fields,
          companionVars, literalVars, scalarizeVars, contractVars, stringVars,
          linkVars, irVars, nameVars, frameVars, arrayVars, fdwVars, openVars,
          mainVars, bxVars, promoVars, roundVars>>

(***************************************************************************)
(* Bounds of the model.                                                    *)
(***************************************************************************)
MaxOperands == 3
MaxStmts == 2        \* statements of a function body, nested blocks included
MaxNodes == 2        \* binary and call nodes of one statement's expression
MaxParams == 8       \* parameters of the callee of the call that is run
MaxMismatch == 1     \* calls of a function body whose argument count is not
                     \* the callee's parameter count
MaxFields == 2       \* fields of the struct
MaxDecl == 3         \* declared parameters of the struct-returning function
MaxLit == 3          \* fields written in a struct literal
MaxProg == 2         \* statements of the function body sent through both stages
MaxLiterals == 2     \* (string ...) nodes of the program
MaxInitRuns == 2     \* runs of the string-writing block that are counted
MaxText == 16        \* bytes of the .text section of the object
MaxRelas == 2        \* entries of .rela.text
MaxRootLen == 5      \* children of the IR root
MaxBody == 3         \* statements of a function's block
MaxFrameParams == 2  \* parameters of the function whose frame is laid out
MaxFrameLets == 2    \* lets of the function whose frame is laid out
MaxDigits == 2       \* digits of an array size literal
MaxIov == 2          \* iov_cnt, and the length of an iovec entry
MaxFns == 2          \* functions of a program
MaxCallArgs == 2     \* arguments of a call inside an expression
MaxRoundFns == 2     \* functions of a program whose IR text is read back

(***************************************************************************)
(* Helpers.                                                                *)
(***************************************************************************)
Max(a, b) == IF a >= b THEN a ELSE b
Min(a, b) == IF a <= b THEN a ELSE b

RECURSIVE SeqsUpTo(_, _)
SeqsUpTo(S, n) ==
  IF n = 0 THEN {<<>>}
  ELSE LET shorter == SeqsUpTo(S, n - 1)
       IN  shorter \cup {Append(s, x) : s \in {t \in shorter : Len(t) = n - 1}, x \in S}

(***************************************************************************)
(* Parser._resolve_binop_type and the loops that call it.                  *)
(***************************************************************************)
\* The operand types the binop table of the specification ranges over.
BinopTypes == {"i32", "bool", "i64", "f32", "f64"}

\* Parser._resolve_binop_type: i32 when both are i32/bool, else the first of
\* (left, right) that is one of i64, f32, f64.
resolve_binop_type(l, r) ==
  IF l \in {"i32", "bool"} /\ r \in {"i32", "bool"} THEN "i32"
  ELSE IF l \in {"i64", "f32", "f64"} THEN l
  ELSE IF r \in {"i64", "f32", "f64"} THEN r
  ELSE "i32"

BinopIdle ==
  /\ level = "idle"
  /\ left_ty = "none"
  /\ rest_tys = <<>>
  /\ right_ty = "none"
  /\ prev_left_ty = "none"
  /\ bin_ty = "none"
  /\ annot = ""

(***************************************************************************)
(* FnEmitter: stack_depth through emit_function, emit_stmt, emit_expr and  *)
(* emit_call.                                                              *)
(***************************************************************************)
IntRegs == 6     \* len(ARG_REGS64)
FloatRegs == 8   \* len(XMM_REGS)

Rep(x, n) == [i \in 1..n |-> x]

\* The functions of the program being lowered (parse_fn's signatures): name
\* |-> parameter types.  The intrinsic has no signature.
Signatures ==
  [f0 |-> <<>>,
   f2 |-> <<"i32", "f32">>,
   f7 |-> Rep("i32", 7)]

Intrinsic == "__mem_load"
Callees == DOMAIN Signatures \cup {Intrinsic, "undefined_fn"}

\* The argument counts the calls of the program give a callee: the declared
\* count, and one less and one more (nothing in the frontend compares them).
ArgCounts(fn) ==
  IF fn \in DOMAIN Signatures
  THEN {n \in {Len(Signatures[fn]) - 1, Len(Signatures[fn]), Len(Signatures[fn]) + 1} : n >= 0}
  ELSE 0..2

IsFloat(ty) == ty \in {"f32", "f64"}

\* emit_call: param_types = sig[0] if sig else ["i32"] * len(args)
ParamTypes(fn, n) ==
  IF fn \in DOMAIN Signatures THEN Signatures[fn] ELSE Rep("i32", n)

\* emit_call: the type of argument i (1-based here)
ArgType(pt, i) == IF i <= Len(pt) THEN pt[i] ELSE "i32"

NFloatArgs(pt, n) == Cardinality({i \in 1..n : IsFloat(ArgType(pt, i))})
NIntArgs(pt, n) == n - NFloatArgs(pt, n)

\* emit_call: stack_n = max(0, len(int_args) - 6) + max(0, len(float_args) - 8)
StackN(pt, n) ==
  Max(0, NIntArgs(pt, n) - IntRegs) + Max(0, NFloatArgs(pt, n) - FloatRegs)

\* emit_call: reg_int_n + reg_float_n
RegArgs(pt, n) ==
  Min(NIntArgs(pt, n), IntRegs) + Min(NFloatArgs(pt, n), FloatRegs)

\* A plausible slip: the loop pops every parameter, also those left on the stack.
RegPopsAll(pt) == Len(pt)

\* emit_call: the pops of the loop over param_types (curr_int < 6, curr_float < 8)
RegPops(pt) ==
  Min(Cardinality({i \in 1..Len(pt) : ~IsFloat(pt[i])}), IntRegs)
  + Min(Cardinality({i \in 1..Len(pt) : IsFloat(pt[i])}), FloatRegs)

Task(op) == [op |-> op, fn |-> "", n |-> 0, d0 |-> 0, pad |-> 0]
NoSite == [fn |-> "", n |-> 0, d0 |-> 0, pad |-> 0, stack_n |-> 0]

RECURSIVE Flat(_)
Flat(ss) == IF ss = <<>> THEN <<>> ELSE Head(ss) \o Flat(Tail(ss))

EmitIdle ==
  /\ pc = "idle"
  /\ todo = <<>>
  /\ stack_depth = 0
  /\ site = NoSite
  /\ reg_net = 0
  /\ mismatches = 0
  /\ stmts_left = 0
  /\ nodes_left = 0

\* emit_function after the prologue: self.stack_depth = 0, then emit_block
\* over the statements of the body.
EmitInit ==
  /\ pc = "body"
  /\ \E k \in 0..MaxStmts :
       /\ todo = Rep(Task("stmt"), k)
       /\ stmts_left = MaxStmts - k
  /\ nodes_left = 0
  /\ stack_depth = 0
  /\ site = NoSite
  /\ reg_net = 0
  /\ mismatches = 0

(***************************************************************************)
(* The instructions emit_call emits for one call whose arguments are       *)
(* leaves, executed: what the registers and the stack hold at the call.    *)
(***************************************************************************)
Junk == 0      \* a register nothing was moved into
Pad == -1      \* the quadword of sub rsp, 8
Outer == -2    \* an operand pushed by an enclosing binary or call

CallIdle ==
  /\ param_types = <<>>
  /\ cpc = "idle"
  /\ mstack = <<>>
  /\ int_regs = Rep(Junk, IntRegs)
  /\ xmm_regs = Rep(Junk, FloatRegs)
  /\ args_left = 0
  /\ next_param = 0
  /\ curr_int = 0
  /\ curr_float = 0
  /\ eval_log = <<>>

\* emit_call is entered for a call with as many arguments as param_types
\* has entries, at stack depth 0 or 1.
CallInit ==
  /\ param_types \in SeqsUpTo({"i32", "f32"}, MaxParams)
  /\ cpc = "pad"
  /\ mstack \in {<<>>, <<Outer>>}
  /\ int_regs = Rep(Junk, IntRegs)
  /\ xmm_regs = Rep(Junk, FloatRegs)
  /\ args_left = Len(param_types)
  /\ next_param = 1
  /\ curr_int = 0
  /\ curr_float = 0
  /\ eval_log = <<>>

(***************************************************************************)
(* The prologue emit_function emits, executed: where each parameter's      *)
(* frame slot is filled from.                                              *)
(***************************************************************************)
IntReg(k) == 100 + k       \* ARG_REGS64[k] / ARG_REGS32[k], k from 0
XmmReg(j) == 200 + j       \* XMM_REGS[j], j from 0
CallerSlot(t) == 300 + t   \* [rbp + 16 + 8*t], t from 0

PrologueIdle ==
  /\ params = <<>>
  /\ ppc = "idle"
  /\ frame = <<>>
  /\ p_i = 0
  /\ p_curr_int = 0
  /\ p_curr_float = 0

\* push rbp; mov rbp, rsp; sub rsp, stack_size are done; the first loop starts.
PrologueInit ==
  /\ params \in SeqsUpTo({"i32", "f32"}, MaxParams)
  /\ ppc = "spill"
  /\ frame = Rep(Junk, Len(params))
  /\ p_i = 1
  /\ p_curr_int = 0
  /\ p_curr_float = 0

(***************************************************************************)
(* The frontend's struct handling.                                         *)
(***************************************************************************)
FieldNames == {"x", "y"}

\* The struct declarations considered: distinct field names, in any order.
StructDecls ==
  {fs \in SeqsUpTo(FieldNames, MaxFields) :
     \A i, j \in 1..Len(fs) : fs[i] = fs[j] => i = j}

SCALAR_TYPES == {"i32", "i64", "f32"}

CompanionIdle ==
  /\ decl = <<>>
  /\ kpc = "idle"
  /\ decl_i = 0
  /\ params_list = <<>>
  /\ param_types_list = <<>>
  /\ out = <<>>

\* fn f(<decl>) -> S: the name and "(" are read, parse_params_ir starts.
CompanionInit ==
  /\ struct_fields \in StructDecls
  /\ decl \in SeqsUpTo(SCALAR_TYPES \cup {"S"}, MaxDecl)
  /\ kpc = "params"
  /\ decl_i = 1
  /\ params_list = <<>>
  /\ param_types_list = <<>>
  /\ out = <<>>

LiteralIdle ==
  /\ ctx = "none"
  /\ lit = <<>>
  /\ lpc = "idle"
  /\ lit_i = 0
  /\ vals = <<>>
  /\ lets = <<>>

\* The constructor name and "{" are read, the loop over the fields starts.
LiteralInit ==
  /\ struct_fields \in StructDecls
  /\ ctx \in {"let", "return"}
  /\ lit \in SeqsUpTo(FieldNames \cup {"z"}, MaxLit)
  /\ lpc = "fields"
  /\ lit_i = 1
  /\ vals = <<>>
  /\ lets = <<>>

\* a 64-bit value, as its high and low dwords
QWord(h, l) == [hi |-> h, lo |-> l]

ScalarizeIdle ==
  /\ mk_param_ty = "none"
  /\ arg = QWord(0, 0)
  /\ bumps = FALSE
  /\ ret_exprs = <<>>
  /\ mem = 0
  /\ locals = <<>>
  /\ zpc = "idle"
  /\ assigned = 0
  /\ before = <<>>

\* The values a caller passes for a parameter of a type: 1 and 2 for i32,
\* 1 and 2^32 + 1 for i64.
ArgValues(ty) ==
  IF ty = "i64" THEN {QWord(0, 1), QWord(1, 1)} ELSE {QWord(0, 1), QWord(0, 2)}

\* The field expressions considered: the parameter a (for an i32 parameter),
\* the comparison a == 1 in the parameter's type, and __mem_load(0).
ExprKinds(ty) == IF ty = "i64" THEN {"a_eq_1", "load"} ELSE {"a", "a_eq_1", "load"}

\* main is about to run  let x: S = mk(arg);  memory is zeroed (.bss).
ScalarizeInit ==
  /\ struct_fields \in StructDecls
  /\ mk_param_ty \in {"i32", "i64"}
  /\ arg \in ArgValues(mk_param_ty)
  /\ bumps \in BOOLEAN
  /\ ret_exprs \in [1..Len(struct_fields) -> ExprKinds(mk_param_ty)]
  /\ mem = 0
  /\ locals = <<>>
  /\ zpc = "let"
  /\ assigned = 0
  /\ before = <<>>

StructGroups == {"companion", "literal", "scalarize"}

(***************************************************************************)
(* The IR between the two stages.                                          *)
(***************************************************************************)
Stmt(t, e) == [tag |-> t, expr |-> e]

\* The source statements considered, and the IR parse_stmt_ir and
\* parse_term_typed emit for each.
FrontendIR ==
  [let_int |-> <<Stmt("let", <<"int">>)>>,                \* let x: i32 = 1;
   let_i64 |-> <<Stmt("let", <<"int_i64">>)>>,            \* let x: i64 = 1i64;
   let_f32 |-> <<Stmt("let", <<"float_f32">>)>>,          \* let x: f32 = 1.5;
   let_f64 |-> <<Stmt("let", <<"float_f64">>)>>,          \* let x: f64 = 1.5f64;
   let_bool |-> <<Stmt("let", <<"bool">>)>>,              \* let b: bool = true;
   let_str |-> <<Stmt("let", <<"string_typed">>)>>,       \* let s: str = "hi";
   let_array |-> <<Stmt("let", <<"array_alloc">>),        \* let a: [i32; 1] = [0; 1];
                   Stmt("expr", <<"array_set", "ident", "int", "int">>)>>,
   index_assign |-> <<Stmt("expr", <<"array_set", "ident", "int", "int">>)>>,  \* a[0] = 1;
   return_index |-> <<Stmt("return", <<"array_get", "ident", "int">>)>>,   \* return a[0];
   return_str_len |-> <<Stmt("return", <<"str_len", "ident">>)>>,          \* return str_len(s);
   return_str_ptr |-> <<Stmt("return", <<"str_ptr", "ident">>)>>,          \* return str_ptr(s);
   return_string |-> <<Stmt("return", <<"string">>)>>,    \* return "hi";
   return_binary |-> <<Stmt("return", <<"binary", "ident", "int">>)>>,     \* return x + 1;
   assign |-> <<Stmt("assign", <<"ident">>)>>,            \* x = y;
   expr_call |-> <<Stmt("expr", <<"call", "int">>)>>,     \* g(1);
   if_stmt |-> <<Stmt("if", <<"bool">>)>>,                \* if (true) {}
   while_stmt |-> <<Stmt("while", <<"bool">>)>>]          \* while (false) {}

SourceForms == DOMAIN FrontendIR

\* the tags emit_stmt has a branch for
StmtTags == {"let", "assign", "return", "expr", "if", "while"}

\* the tags emit_expr has a branch for
ExprTags == {"int", "int_i64", "float_f32", "float_f64", "bool", "ident",
             "string", "binary", "call"}

ContractIdle ==
  /\ source = <<>>
  /\ ir = <<>>
  /\ visiting = <<>>
  /\ xpc = "idle"

ContractInit ==
  /\ source \in SeqsUpTo(SourceForms, MaxProg)
  /\ ir = <<>>
  /\ visiting = <<>>
  /\ xpc = "frontend"

(***************************************************************************)
(* String literals.  A token is the text between the quotes, as a sequence *)
(* of items: a source character or an escape, each standing for the code   *)
(* point v.                                                                *)
(***************************************************************************)
Item(kind, cp) == [k |-> kind, v |-> cp]

\* "A", "\x41", "\xff", "A\n", "" and a literal holding the UTF-8 bytes of e-acute
Tokens ==
  {<<Item("chr", 65)>>, <<Item("hex", 65)>>, <<Item("hex", 255)>>,
   <<Item("chr", 65), Item("esc", 10)>>, <<>>,
   <<Item("chr", 195), Item("chr", 169)>>}

StringBase == 65536     \* next_addr = 65536
MemSize == 1048576      \* __coatl_mem: .zero 1048576; the guard word follows

\* str.encode("utf-8") of one code point below 2048
Utf8(cp) == IF cp < 128 THEN <<cp>> ELSE <<192 + (cp \div 64), 128 + (cp % 64)>>

\* decode_string_token: the bytes of the token are read as unicode_escape
\* (every source byte and every escape becomes the code point of its value),
\* the resulting text is encoded as UTF-8
RECURSIVE decode_string_token(_)
decode_string_token(tok) ==
  IF tok = <<>> THEN <<>>
  ELSE Utf8(Head(tok).v) \o decode_string_token(Tail(tok))

StringsIdle ==
  /\ literals = <<>>
  /\ str_tokens = <<>>
  /\ string_addrs = <<>>
  /\ next_addr = 0
  /\ gpc = "idle"
  /\ coatl_mem = <<>>
  /\ coatl_mem_inited = 0
  /\ init_runs = 0

StringsInit ==
  /\ literals \in SeqsUpTo(Tokens, MaxLiterals)
  /\ str_tokens = <<>>
  /\ string_addrs = <<>>
  /\ next_addr = StringBase
  /\ gpc = "collect"
  /\ coatl_mem = <<>>
  /\ coatl_mem_inited = 0
  /\ init_runs = 0

(***************************************************************************)
(* The linker.  A 64-bit quantity that can leave the 32-bit range is kept  *)
(* as a pair of a high part and a low part: hi * 65536 + lo.               *)
(***************************************************************************)
R_X86_64_PC32 == 2
R_X86_64_PLT32 == 4
SHN_UNDEF == 0
SHN_ABS == 65521
base == 4194304          \* 0x400000
text_off == 4096         \* 0x1000
text_vaddr == base + text_off
text_idx == 1            \* the section index of .text in the objects considered
NopByte == 144           \* the bytes of .text before linking

align_up(v, a) == ((v + a - 1) \div a) * a

Sym(nm, shndx, value) == [st_name |-> nm, st_shndx |-> shndx, st_value |-> value]

\* The symbol table of the objects considered: symbols in .text, in .bss
\* (section 3), absolute, undefined, in another section (2), and a second
\* symbol named f.
syms ==
  <<Sym("coatl_start", text_idx, 0), Sym("f", text_idx, 8), Sym("buf", 3, 4),
    Sym("k", SHN_ABS, 16), Sym("ext", SHN_UNDEF, 0), Sym("d", 2, 0),
    Sym("f", SHN_ABS, 32)>>

\* what sym_addr gives: an address, or the exception it raised
Addr(a) == [err |-> "", addr |-> a]
Raised(e) == [err |-> e, addr |-> 0]
Unresolved == Raised("none")

\* no entry of .rela.text applied yet
NoRela == [r_offset |-> 0, r_type |-> 0, r_sym |-> 0, ah |-> 0, al |-> 0]
NoLast == [rela |-> NoRela, before |-> <<>>, s_addr |-> Unresolved, bytes |-> <<>>,
           outcome |-> "none"]
NoPhdr == [p_flags |-> 0, p_offset |-> 0, p_vaddr |-> 0, filesz |-> 0, memsz |-> 0,
           p_align |-> 0]

LinkIdle ==
  /\ text = <<>>
  /\ bss_idx = 0
  /\ bss_size = 0
  /\ bss_vaddr = 0
  /\ entry_name = ""
  /\ relas_left = 0
  /\ last = NoLast
  /\ entry_addr = Unresolved
  /\ phdr = NoPhdr
  /\ lkpc = "idle"

\* The object is read: text, bss_size, syms, and the addresses computed
\* from len(text).
LinkInit ==
  /\ \E n \in (MaxText - 1)..MaxText : text = Rep(NopByte, n)
  /\ \E b \in {<<0, 0>>, <<3, 0>>, <<3, 16>>} : bss_idx = b[1] /\ bss_size = b[2]
  /\ bss_vaddr = align_up(text_vaddr + Len(text), 16)
  /\ entry_name \in {"coatl_start", "f", "ext", "main"}
  /\ relas_left = MaxRelas
  /\ last = NoLast
  /\ entry_addr = Unresolved
  /\ phdr = NoPhdr
  /\ lkpc = "relas"

(***************************************************************************)
(* IR trees handed to the x86-64 codegen.  "(list)" stands for a child     *)
(* that is a list where an atom is read.                                   *)
(***************************************************************************)
\* The roots considered: an atom, or a list of 0..MaxRootLen children with
\* these first two children and these heads of the third and fourth child.
Roots ==
  [is_list : {TRUE}, len : 0..MaxRootLen, name : {"coatl_ir", "mee_ir", "(list)"},
   ver : {"v1", "v0", "(list)"}, sec2 : {"structs", "foo"},
   sec3 : {"functions", "bar"}]
  \cup [is_list : {FALSE}, len : {0}, name : {"coatl_ir"}, ver : {"v1"},
         sec2 : {"structs"}, sec3 : {"functions"}]

\* The statements considered: (return E), (if (int 1) (block) [X]) with X
\* absent, (else (block)) or (elif (block)), and (loop ...); E is (int 1),
\* (cast ...) or (binary add [TYPE] (int 1) (int 2)).
Stmts ==
  [tag : {"return"}, third : {"none"}, expr : {"int", "cast"}, ty : {"none"}]
  \cup [tag : {"return"}, third : {"none"}, expr : {"binary"},
         ty : {"none", "i32", "i64", "f32", "f64", "u8"}]
  \cup [tag : {"if"}, third : {"none", "else", "elif"}, expr : {"int"}, ty : {"none"}]
  \cup [tag : {"loop"}, third : {"none"}, expr : {"int"}, ty : {"none"}]

NoRoot == [is_list |-> FALSE, len |-> 0, name |-> "", ver |-> "", sec2 |-> "",
           sec3 |-> ""]
NoStmt == [tag |-> "", third |-> "none", expr |-> "", ty |-> "none"]

IrIdle ==
  /\ root = NoRoot
  /\ fn_head = ""
  /\ stmt = NoStmt
  /\ opc = "idle"
  /\ lowered_ty = "none"
  /\ skipped = FALSE

IrInit ==
  /\ root \in Roots
  /\ fn_head \in {"fn", "func"}
  /\ stmt \in Stmts
  /\ opc = "root"
  /\ lowered_ty = "none"
  /\ skipped = FALSE

(***************************************************************************)
(* Names of a function fn f(a: i32).  A statement is a let at the top of   *)
(* the block ("let"), a let that is the only statement of an if branch or  *)
(* of a while body ("iflet", "whilelet"), a read of a name ("read") or an  *)
(* assignment to it ("assign").                                            *)
(***************************************************************************)
Params == {"a"}
Names == {"a", "x", "z"}
LetKinds == {"let", "iflet", "whilelet"}
BodyStmts == [kind : LetKinds \cup {"read", "assign"}, name : Names]

NamesIdle ==
  /\ body = <<>>
  /\ local_types = {}
  /\ slots = {}
  /\ n_i = 0
  /\ npc = "idle"

NamesInit ==
  /\ body \in SeqsUpTo(BodyStmts, MaxBody)
  /\ Len(body) >= 1
  /\ local_types = {}
  /\ slots = {}
  /\ n_i = 1
  /\ npc = "parse"

(***************************************************************************)
(* Frames.  A name is the sequence of its code points: "a", "b", "aa",     *)
(* "ab" and "_".                                                           *)
(***************************************************************************)
FrameNames == {<<97>>, <<98>>, <<97, 97>>, <<97, 98>>, <<95>>}

FrameIdle ==
  /\ fn_params = <<>>
  /\ fn_lets = <<>>
  /\ fn_vars = {}
  /\ var_off = <<>>
  /\ stack_size = 0
  /\ f_i = 0
  /\ fpc = "idle"

FrameInit ==
  /\ fn_params \in SeqsUpTo(FrameNames, MaxFrameParams)
  /\ fn_lets \in SeqsUpTo(FrameNames, MaxFrameLets)
  /\ fn_vars = {}
  /\ var_off = <<>>
  /\ stack_size = 0
  /\ f_i = 1
  /\ fpc = "params"

(***************************************************************************)
(* Array initialization.  A size literal is the sequence of its digits.    *)
(***************************************************************************)
Digits == {0, 1, 2}
SizeToks == SeqsUpTo(Digits, MaxDigits) \ {<<>>}

ArrayIdle ==
  /\ size_tok = <<>>
  /\ count_tok = <<>>
  /\ arr_size = 0
  /\ arr_out = <<>>
  /\ arr_i = 0
  /\ apc = "idle"

ArrayInit ==
  /\ size_tok \in SizeToks
  /\ count_tok \in SizeToks
  /\ arr_size = 0
  /\ arr_out = <<>>
  /\ arr_i = 0
  /\ apc = "check"

(***************************************************************************)
(* __fd_write.  Linear memory holds MaxIov + 1 eight-byte entries from     *)
(* iov_base on; the call passes iov_cnt of them.                           *)
(***************************************************************************)
FdwIdle ==
  /\ iov_mem = <<>>
  /\ iov_cnt = 0
  /\ r_edx = 0
  /\ r_r10 = 0
  /\ r_ebx = 0
  /\ writes = <<>>
  /\ nwritten = -1
  /\ wpc = "idle"

\* after mov r12d, edi; mov r13d, esi; mov r14d, ecx; xor ebx, ebx;
\* xor r10d, r10d: edx still holds iov_cnt
FdwInit ==
  /\ iov_mem \in [1..(MaxIov + 1) -> 0..MaxIov]
  /\ iov_cnt \in 0..MaxIov
  /\ r_edx = iov_cnt
  /\ r_r10 = 0
  /\ r_ebx = 0
  /\ writes = <<>>
  /\ nwritten = -1
  /\ wpc = "loop"

(***************************************************************************)
(* __path_open.                                                            *)
(***************************************************************************)
PathBuf == 4096      \* sub rsp, 4096
PathMax == 4095      \* cmp ecx, 4095
EINVAL == 22
ENOENT == 2

OpenIdle ==
  /\ path_len = 0
  /\ po_eax = 0
  /\ buf_top = -1
  /\ nul_at = -1
  /\ po_syscall = FALSE
  /\ po_ret = -1
  /\ opn_pc = "idle"

\* the lengths considered: around 0 and around the limit
OpenInit ==
  /\ path_len \in {-2, -1, 0, 1, 2, PathMax - 1, PathMax, PathMax + 1, PathMax + 2}
  /\ po_eax = 0
  /\ buf_top = -1
  /\ nul_at = -1
  /\ po_syscall = FALSE
  /\ po_ret = -1
  /\ opn_pc = "check"

(***************************************************************************)
(* Programs as lists of function declarations.  The structs declared are   *)
(* P { x, y } and Q { }.                                                   *)
(***************************************************************************)
ProgStructs == [P |-> <<"x", "y">>, Q |-> <<>>]
FnDecls == [name : {"main", "f"}, ret : {"i32", "P", "Q"}]

\* the IR name of a plain function, and of the companion for a field
IrName(name, fld) == <<name, fld>>

MainIdle ==
  /\ prog_fns = <<>>
  /\ saw_main = FALSE
  /\ ir_fns = <<>>
  /\ prog_i = 0
  /\ mpc = "idle"

MainInit ==
  /\ prog_fns \in SeqsUpTo(FnDecls, MaxFns)
  /\ saw_main = FALSE
  /\ ir_fns = <<>>
  /\ prog_i = 1
  /\ mpc = "parse"

(***************************************************************************)
(* i32 expressions.  The program has fn f1(a: i32) -> i32 { return a; };   *)
(* a call passes 1..MaxCallArgs literals (the frontend does not compare    *)
(* the count with the declaration).  Values are signed 32-bit integers.    *)
(***************************************************************************)
MaxI32 == 2147483647
MinI32 == (-2147483647) - 1

IntLits == {1, 2, MaxI32}
BinOps == {"add", "sub", "lt"}

IntExprs == [k : {"int"}, v : IntLits]
CallExprs == [k : {"call"}, args : SeqsUpTo(IntExprs, MaxCallArgs) \ {<<>>}]
FlatBinExprs(R) == [k : {"binary"}, op : BinOps, l : IntExprs, r : R]
\* LHS OP RHS: the LHS a literal or a binary of literals, the RHS a literal,
\* a call, or a binary whose RHS is a literal or a call
BinExprs ==
  [k : {"binary"}, op : BinOps,
   l : IntExprs \cup FlatBinExprs(IntExprs),
   r : IntExprs \cup CallExprs \cup FlatBinExprs(IntExprs \cup CallExprs)]

Ins(op, x) == [op |-> op, arg |-> x]

\* emit_expr, with emit_call for fn f1: the instructions emitted for e at
\* stack_depth d, and stack_depth afterwards
RECURSIVE EmitExpr(_, _)
RECURSIVE EmitArgs(_, _)
EmitArgs(args, d) ==
  IF args = <<>> THEN [code |-> <<>>, d |-> d]
  ELSE LET a == EmitExpr(args[Len(args)], d)
           rest == EmitArgs(SubSeq(args, 1, Len(args) - 1), a.d + 1)
       IN  [code |-> a.code \o <<Ins("push", "rax")>> \o rest.code, d |-> rest.d]
EmitExpr(e, d) ==
  IF e.k = "int" THEN [code |-> <<Ins("mov_eax", e.v)>>, d |-> d]
  ELSE IF e.k = "binary"
  THEN LET l == EmitExpr(e.l, d)
           r == EmitExpr(e.r, l.d + 1)
       IN  [code |-> l.code \o <<Ins("push", "rax")>> \o r.code
                     \o <<Ins("mov_rcx_rax", 0), Ins("pop", "rax"), Ins("binop", e.op)>>,
            d |-> r.d - 1]
  ELSE LET need_pad == IF d % 2 = 1 THEN 1 ELSE 0
           a == EmitArgs(e.args, d + need_pad)
           cleanup == IF need_pad = 1 THEN <<Ins("add_rsp", 1)>> ELSE <<>>
           pad == IF need_pad = 1 THEN <<Ins("sub_rsp", 1)>> ELSE <<>>
       IN  [code |-> pad \o a.code \o <<Ins("pop", "rdi"), Ins("call", "f1")>> \o cleanup,
            d |-> (a.d - 1) - need_pad]

(***************************************************************************)
(* An i64 binary with an i32 operand: A - B with i32 literals on the left, *)
(* an i64 literal on the right.  A dword is the signed value of its bits.  *)
(***************************************************************************)
PromoExprs ==
  [op : {"add", "sub"}, a : {0, 1, MaxI32}, b : {0, 1, 2},
   v : {QWord(0, 0), QWord(0, 1), QWord(0, -1), QWord(1, 0)}]

PromoIdle ==
  /\ pm_expr = [op |-> "none"]
  /\ pm_rax = QWord(0, 0)
  /\ pm_rcx = QWord(0, 0)
  /\ pm_stack = <<>>
  /\ pm_pc = "idle"

PromoInit ==
  /\ pm_expr \in PromoExprs
  /\ pm_rax = QWord(0, 0)
  /\ pm_rcx = QWord(0, 0)
  /\ pm_stack = <<>>
  /\ pm_pc = "lhs"

(***************************************************************************)
(* IR text.  A character is a one-character string, or a whole word of     *)
(* letters, digits and underscores (coatl_ir, main, i32) standing for its  *)
(* characters; " " also stands for a run of spaces.                        *)
(***************************************************************************)
Quote == "\""
Backslash == "\\"

\* string literals as the lexer of the frontend delivers them, quotes
\* included: "a (b", and a backslash, a quote and a parenthesis
StrLits ==
  {<<Quote, "a", " ", "(", "b", Quote>>,
   <<Quote, Backslash, Quote, ")", Quote>>}

\* fn NAME(PARAMS) -> RET { return LIT; }, or return 0; when lit is <<>>
RoundFns ==
  [name : {"main", "f"},
   sig : {[params |-> <<>>, ret |-> "i32"],
          [params |-> <<[name |-> "a", ty |-> "i64"], [name |-> "b", ty |-> "i32"]>>,
           ret |-> "i64"]},
   lit : StrLits \cup {<<>>}]

NoNode == [none |-> TRUE]

RoundIdle ==
  /\ rt_prog = <<>>
  /\ rt_text = <<>>
  /\ rt_i = 0
  /\ rt_toks = <<>>
  /\ rt_root = NoNode
  /\ rt_fns = <<>>
  /\ rt_pc = "idle"

RoundInit ==
  /\ rt_prog \in SeqsUpTo(RoundFns, MaxRoundFns) \ {<<>>}
  /\ rt_text = <<>>
  /\ rt_i = 0
  /\ rt_toks = <<>>
  /\ rt_root = NoNode
  /\ rt_fns = <<>>
  /\ rt_pc = "emit"

BxIdle ==
  /\ bx_expr = [k |-> "none"]
  /\ bx_code = <<>>
  /\ bx_stack = <<>>
  /\ bx_rax = 0
  /\ bx_rcx = 0
  /\ bx_rdi = 0

\* emit_function has set stack_depth = 0; the registers hold what the
\* prologue left
BxInit ==
  /\ bx_expr \in BinExprs
  /\ bx_code = EmitExpr(bx_expr, 0).code
  /\ bx_stack = <<>>
  /\ bx_rax = 0
  /\ bx_rcx = 0
  /\ bx_rdi = 0

Idle(g) ==
  /\ IF g = "binop" THEN TRUE ELSE BinopIdle
  /\ IF g = "emit" THEN TRUE ELSE EmitIdle
  /\ IF g = "call" THEN TRUE ELSE CallIdle
  /\ IF g = "prologue" THEN TRUE ELSE PrologueIdle
  /\ IF g \in StructGroups THEN TRUE ELSE struct_fields = <<>>
  /\ IF g = "companion" THEN TRUE ELSE CompanionIdle
  /\ IF g = "literal" THEN TRUE ELSE LiteralIdle
  /\ IF g = "scalarize" THEN TRUE ELSE ScalarizeIdle
  /\ IF g = "contract" THEN TRUE ELSE ContractIdle
  /\ IF g = "strings" THEN TRUE ELSE StringsIdle
  /\ IF g = "link" THEN TRUE ELSE LinkIdle
  /\ IF g = "ir" THEN TRUE ELSE IrIdle
  /\ IF g = "names" THEN TRUE ELSE NamesIdle
  /\ IF g = "frame" THEN TRUE ELSE FrameIdle
  /\ IF g = "array" THEN TRUE ELSE ArrayIdle
  /\ IF g = "fdw" THEN TRUE ELSE FdwIdle
  /\ IF g = "open" THEN TRUE ELSE OpenIdle
  /\ IF g = "main" THEN TRUE ELSE MainIdle
  /\ IF g = "bx" THEN TRUE ELSE BxIdle
  /\ IF g = "promo" THEN TRUE ELSE PromoIdle
  /\ IF g = "round" THEN TRUE ELSE RoundIdle

Frame(g) ==
  /\ IF g = "binop" THEN TRUE ELSE UNCHANGED binopVars
  /\ IF g = "emit" THEN TRUE ELSE UNCHANGED emitVars
  /\ IF g = "call" THEN TRUE ELSE UNCHANGED callVars
  /\ IF g = "prologue" THEN TRUE ELSE UNCHANGED prologueVars
  /\ UNCHANGED struct_fields
  /\ IF g = "companion" THEN TRUE ELSE UNCHANGED companionVars
  /\ IF g = "literal" THEN TRUE ELSE UNCHANGED literalVars
  /\ IF g = "scalarize" THEN TRUE ELSE UNCHANGED scalarizeVars
  /\ IF g = "contract" THEN TRUE ELSE UNCHANGED contractVars
  /\ IF g = "strings" THEN TRUE ELSE UNCHANGED stringVars
  /\ IF g = "link" THEN TRUE ELSE UNCHANGED linkVars
  /\ IF g = "ir" THEN TRUE ELSE UNCHANGED irVars
  /\ IF g = "names" THEN TRUE ELSE UNCHANGED nameVars
  /\ IF g = "frame" THEN TRUE ELSE UNCHANGED frameVars
  /\ IF g = "array" THEN TRUE ELSE UNCHANGED arrayVars
  /\ IF g = "fdw" THEN TRUE ELSE UNCHANGED fdwVars
  /\ IF g = "open" THEN TRUE ELSE UNCHANGED openVars
  /\ IF g = "main" THEN TRUE ELSE UNCHANGED mainVars
  /\ IF g = "bx" THEN TRUE ELSE UNCHANGED bxVars
  /\ IF g = "promo" THEN TRUE ELSE UNCHANGED promoVars
  /\ IF g = "round" THEN TRUE ELSE UNCHANGED roundVars

\* The loop has parsed its first operand (left_ty) and sees the operators and
\* operands still to come.
BinopInit ==
  /\ level \in {"cmp", "add", "mul"}
  /\ left_ty \in BinopTypes
  /\ rest_tys \in (SeqsUpTo(BinopTypes, MaxOperands - 1) \ {<<>>})
  /\ right_ty = "none"
  /\ prev_left_ty = "none"
  /\ bin_ty = "none"
  /\ annot = ""

\* One iteration of the loop of parse_cmp_typed (lv = "cmp"), parse_add_typed
\* or parse_mul_typed: resolve the type, write the node, assign left_ty.
BinopIter(lv) ==
  /\ level = lv
  /\ rest_tys # <<>>
  /\ LET r == Head(rest_tys)
         b == resolve_binop_type(left_ty, r)
     IN  /\ right_ty' = r
         /\ prev_left_ty' = left_ty
         /\ bin_ty' = b
         /\ annot' = IF b # "i32" THEN b ELSE ""
         /\ left_ty' = IF lv = "cmp" THEN "i32" ELSE b
  /\ rest_tys' = Tail(rest_tys)
  /\ UNCHANGED level

\* parse_cmp_typed: comparisons always return i32.
ParseCmpStep == BinopIter("cmp") /\ Frame("binop")

\* parse_add_typed: the sum has the resolved type.
ParseAddStep == BinopIter("add") /\ Frame("binop")

\* parse_mul_typed: the product has the resolved type.
ParseMulStep == BinopIter("mul") /\ Frame("binop")

NextBinop == ParseCmpStep \/ ParseAddStep \/ ParseMulStep

InitBinop == BinopInit /\ Idle("binop")

SpecBinop == InitBinop /\ [][NextBinop]_vars

\* The binop type-resolution table of the specification: the wider of the two
\* operand types in the order i32/bool < i64 < f32 < f64.
TypeRank(t) ==
  CASE t \in {"i32", "bool"} -> 0
    [] t = "i64" -> 1
    [] t = "f32" -> 2
    [] t = "f64" -> 3

SpecTable(l, r) ==
  LET w == IF TypeRank(l) >= TypeRank(r) THEN l ELSE r
  IN  IF TypeRank(w) = 0 THEN "i32" ELSE w

\* C1: after every iteration, the resolved type is the one the table of the
\* specification gives for (left operand type, right operand type).
C1_ResolveMatchesTable ==
  bin_ty # "none" => bin_ty = SpecTable(prev_left_ty, right_ty)

(***************************************************************************)
(* FnEmitter actions.                                                      *)
(***************************************************************************)
Emitting(op) == pc = "body" /\ todo # <<>> /\ Head(todo).op = op

\* emit_stmt, tags let / assign / return / expr: emit_expr, then a store or a
\* jump that leaves the stack alone.
EmitSimpleStmt ==
  /\ Emitting("stmt")
  /\ todo' = <<Task("expr")>> \o Tail(todo)
  /\ nodes_left' = MaxNodes
  /\ UNCHANGED <<pc, stack_depth, site, reg_net, mismatches, stmts_left>>
  /\ Frame("emit")

\* emit_stmt, tag if: the condition, the then block, the else block if any.
EmitIfStmt ==
  /\ Emitting("stmt")
  /\ \E k1 \in 0..stmts_left, k2 \in 0..stmts_left :
       /\ k1 + k2 <= stmts_left
       /\ stmts_left' = stmts_left - (k1 + k2)
       /\ todo' = <<Task("expr")>> \o Rep(Task("stmt"), k1 + k2) \o Tail(todo)
  /\ nodes_left' = MaxNodes
  /\ UNCHANGED <<pc, stack_depth, site, reg_net, mismatches>>
  /\ Frame("emit")

\* emit_stmt, tag while: the condition, then the body block.
EmitWhileStmt ==
  /\ Emitting("stmt")
  /\ \E k \in 0..stmts_left :
       /\ stmts_left' = stmts_left - k
       /\ todo' = <<Task("expr")>> \o Rep(Task("stmt"), k) \o Tail(todo)
  /\ nodes_left' = MaxNodes
  /\ UNCHANGED <<pc, stack_depth, site, reg_net, mismatches>>
  /\ Frame("emit")

\* emit_expr, tags int / int_i64 / float_f32 / float_f64 / bool / ident /
\* string: one mov into rax.
EmitLeaf ==
  /\ Emitting("expr")
  /\ todo' = Tail(todo)
  /\ UNCHANGED <<pc, stack_depth, site, reg_net, mismatches, stmts_left, nodes_left>>
  /\ Frame("emit")

\* emit_expr, tag binary: emit_expr(lhs); push_rax(); emit_expr(rhs); then
\* mov rcx, rax and pop_reg("rax").
EmitBinary ==
  /\ Emitting("expr")
  /\ nodes_left > 0
  /\ nodes_left' = nodes_left - 1
  /\ todo' = <<Task("expr"), Task("push"), Task("expr"), Task("binop")>> \o Tail(todo)
  /\ UNCHANGED <<pc, stack_depth, site, reg_net, mismatches, stmts_left>>
  /\ Frame("emit")

\* push_rax
PushRax ==
  /\ Emitting("push")
  /\ stack_depth' = stack_depth + 1
  /\ todo' = Tail(todo)
  /\ UNCHANGED <<pc, site, reg_net, mismatches, stmts_left, nodes_left>>
  /\ Frame("emit")

\* the end of a binary: mov rcx, rax; pop_reg("rax"); the instruction
BinaryPop ==
  /\ Emitting("binop")
  /\ stack_depth' = stack_depth - 1
  /\ todo' = Tail(todo)
  /\ UNCHANGED <<pc, site, reg_net, mismatches, stmts_left, nodes_left>>
  /\ Frame("emit")

\* emit_call up to the evaluation of the arguments: the check of the name, the
\* padding, and for arg in reversed(args): emit_expr(arg); push_rax().
EmitCallEnter ==
  /\ Emitting("expr")
  /\ nodes_left > 0
  /\ nodes_left' = nodes_left - 1
  /\ UNCHANGED stmts_left
  /\ \E fn \in Callees :
       IF fn \notin DOMAIN Signatures /\ fn # Intrinsic
       THEN /\ pc' = "LowerError"
            /\ UNCHANGED <<todo, stack_depth, site, reg_net, mismatches>>
       ELSE \E n \in ArgCounts(fn) :
            LET pt == ParamTypes(fn, n)
                miss == IF n # Len(pt) THEN 1 ELSE 0
                stack_n == StackN(pt, n)
                need_pad == IF (stack_depth + stack_n) % 2 = 1 THEN 1 ELSE 0
                call == [op |-> "call", fn |-> fn, n |-> n,
                         d0 |-> stack_depth, pad |-> need_pad]
            IN  /\ mismatches + miss <= MaxMismatch
                /\ mismatches' = mismatches + miss
                /\ stack_depth' = stack_depth + need_pad
                /\ todo' = Flat(Rep(<<Task("expr"), Task("push")>>, n))
                            \o <<call>> \o Tail(todo)
                /\ UNCHANGED <<pc, site, reg_net>>
  /\ Frame("emit")

\* emit_call, from the loop that pops into the registers to the call
\* instruction.
EmitCallInstr ==
  /\ Emitting("call")
  /\ LET c == Head(todo)
         pt == ParamTypes(c.fn, c.n)
     IN  /\ stack_depth' = stack_depth - RegPops(pt)
         /\ site' = [fn |-> c.fn, n |-> c.n, d0 |-> c.d0, pad |-> c.pad,
                      stack_n |-> StackN(pt, c.n)]
         /\ reg_net' = reg_net + RegArgs(pt, c.n) - RegPops(pt)
  /\ pc' = "at_call"
  /\ UNCHANGED <<todo, mismatches, stmts_left, nodes_left>>
  /\ Frame("emit")

\* emit_call after the call instruction: cleanup_slots = stack_n + pad.
EmitCallCleanup ==
  /\ pc = "at_call"
  /\ stack_depth' = stack_depth - (site.stack_n + site.pad)
  /\ todo' = Tail(todo)
  /\ pc' = "body"
  /\ site' = NoSite
  /\ UNCHANGED <<reg_net, mismatches, stmts_left, nodes_left>>
  /\ Frame("emit")

\* emit_function after emit_block: the body is emitted, the epilogue follows.
\* Nothing looks at stack_depth here.
EmitFunctionExit ==
  /\ pc = "body"
  /\ todo = <<>>
  /\ pc' = "exit"
  /\ UNCHANGED <<todo, stack_depth, site, reg_net, mismatches, stmts_left, nodes_left>>
  /\ Frame("emit")

NextEmit ==
  \/ EmitSimpleStmt
  \/ EmitIfStmt
  \/ EmitWhileStmt
  \/ EmitLeaf
  \/ EmitBinary
  \/ PushRax
  \/ BinaryPop
  \/ EmitCallEnter
  \/ EmitCallInstr
  \/ EmitCallCleanup
  \/ EmitFunctionExit

InitEmit == EmitInit /\ Idle("emit")

SpecEmit == InitEmit /\ [][NextEmit]_vars

\* Where the System V ABI passes the arguments of a signature.
IntParams(pt) == {i \in 1..Len(pt) : ~IsFloat(pt[i])}
FloatParams(pt) == {i \in 1..Len(pt) : IsFloat(pt[i])}
RankIn(S, i) == Cardinality({j \in S : j < i})
InRegister(pt, i) ==
  IF IsFloat(pt[i]) THEN RankIn(FloatParams(pt), i) < FloatRegs
  ELSE RankIn(IntParams(pt), i) < IntRegs
StackParams(pt) == {i \in 1..Len(pt) : ~InRegister(pt, i)}

(***************************************************************************)
(* The emitted call sequence, executed.                                    *)
(***************************************************************************)
\* need_pad: sub rsp, 8 when stack_depth + stack_n is odd
RunPad ==
  /\ cpc = "pad"
  /\ LET n == Len(param_types)
         need_pad == (Len(mstack) + StackN(param_types, n)) % 2 = 1
     IN  mstack' = IF need_pad THEN <<Pad>> \o mstack ELSE mstack
  /\ cpc' = "args"
  /\ UNCHANGED <<param_types, int_regs, xmm_regs, args_left, next_param, curr_int,
                 curr_float, eval_log>>
  /\ Frame("call")

\* for arg in reversed(args): the code of the argument runs, then push rax
RunArg ==
  /\ cpc = "args"
  /\ args_left > 0
  /\ eval_log' = Append(eval_log, args_left)
  /\ mstack' = <<args_left>> \o mstack
  /\ args_left' = args_left - 1
  /\ UNCHANGED <<param_types, cpc, int_regs, xmm_regs, next_param, curr_int, curr_float>>
  /\ Frame("call")

RunArgsDone ==
  /\ cpc = "args"
  /\ args_left = 0
  /\ cpc' = "pops"
  /\ UNCHANGED <<param_types, mstack, int_regs, xmm_regs, args_left, next_param,
                 curr_int, curr_float, eval_log>>
  /\ Frame("call")

\* one turn of for i, ty in enumerate(param_types), float branch: pop rax and
\* movd / movq into XMM_REGS[curr_float] while curr_float < 8, else nothing
RunPopFloat ==
  /\ cpc = "pops"
  /\ next_param <= Len(param_types)
  /\ IsFloat(param_types[next_param])
  /\ IF curr_float < FloatRegs
     THEN /\ xmm_regs' = [xmm_regs EXCEPT ![curr_float + 1] = Head(mstack)]
          /\ mstack' = Tail(mstack)
          /\ curr_float' = curr_float + 1
     ELSE UNCHANGED <<xmm_regs, mstack, curr_float>>
  /\ next_param' = next_param + 1
  /\ UNCHANGED <<param_types, cpc, int_regs, args_left, curr_int, eval_log>>
  /\ Frame("call")

\* the same turn, integer branch: pop ARG_REGS64[curr_int] while curr_int < 6
RunPopInt ==
  /\ cpc = "pops"
  /\ next_param <= Len(param_types)
  /\ ~IsFloat(param_types[next_param])
  /\ IF curr_int < IntRegs
     THEN /\ int_regs' = [int_regs EXCEPT ![curr_int + 1] = Head(mstack)]
          /\ mstack' = Tail(mstack)
          /\ curr_int' = curr_int + 1
     ELSE UNCHANGED <<int_regs, mstack, curr_int>>
  /\ next_param' = next_param + 1
  /\ UNCHANGED <<param_types, cpc, xmm_regs, args_left, curr_float, eval_log>>
  /\ Frame("call")

\* call fn
RunCall ==
  /\ cpc = "pops"
  /\ next_param > Len(param_types)
  /\ cpc' = "at_call"
  /\ UNCHANGED <<param_types, mstack, int_regs, xmm_regs, args_left, next_param,
                 curr_int, curr_float, eval_log>>
  /\ Frame("call")

NextCall == RunPad \/ RunArg \/ RunArgsDone \/ RunPopFloat \/ RunPopInt \/ RunCall

InitCall == CallInit /\ Idle("call")

SpecCall == InitCall /\ [][NextCall]_vars

\* C4: at the call instruction the k-th integer-class argument (k < 6) is in
\* ARG_REGS64[k], the j-th float-class argument (j < 8) is in XMM_REGS[j], and
\* the arguments without a register are on the stack in source order, first
\* on top.
C4_ArgsInAbiPlaces ==
  cpc = "at_call" =>
    /\ \A i \in IntParams(param_types) :
         InRegister(param_types, i) => int_regs[RankIn(IntParams(param_types), i) + 1] = i
    /\ \A i \in FloatParams(param_types) :
         InRegister(param_types, i) => xmm_regs[RankIn(FloatParams(param_types), i) + 1] = i
    /\ LET sp == StackParams(param_types)
       IN  /\ Len(mstack) >= Cardinality(sp)
           /\ \A i \in sp : mstack[RankIn(sp, i) + 1] = i

\* C5: the code of the arguments runs in source order, a1 first.
C5_ArgsRunLeftToRight ==
  cpc = "at_call" => eval_log = [i \in 1..Len(param_types) |-> i]

(***************************************************************************)
(* The emitted prologue, executed.                                         *)
(***************************************************************************)
\* first loop, float branch: movd / movq [rbp-off], XMM_REGS[curr_float]
\* while curr_float < 8, else nothing
SpillFloat ==
  /\ ppc = "spill"
  /\ p_i <= Len(params)
  /\ IsFloat(params[p_i])
  /\ IF p_curr_float < FloatRegs
     THEN /\ frame' = [frame EXCEPT ![p_i] = XmmReg(p_curr_float)]
          /\ p_curr_float' = p_curr_float + 1
     ELSE UNCHANGED <<frame, p_curr_float>>
  /\ p_i' = p_i + 1
  /\ UNCHANGED <<params, ppc, p_curr_int>>
  /\ Frame("prologue")

\* first loop, integer branch: mov [rbp-off], ARG_REGS[curr_int] while
\* curr_int < 6, else nothing
SpillInt ==
  /\ ppc = "spill"
  /\ p_i <= Len(params)
  /\ ~IsFloat(params[p_i])
  /\ IF p_curr_int < IntRegs
     THEN /\ frame' = [frame EXCEPT ![p_i] = IntReg(p_curr_int)]
          /\ p_curr_int' = p_curr_int + 1
     ELSE UNCHANGED <<frame, p_curr_int>>
  /\ p_i' = p_i + 1
  /\ UNCHANGED <<params, ppc, p_curr_float>>
  /\ Frame("prologue")

SpillDone ==
  /\ ppc = "spill"
  /\ p_i > Len(params)
  /\ ppc' = "stack"
  /\ p_i' = 1
  /\ UNCHANGED <<params, frame, p_curr_int, p_curr_float>>
  /\ Frame("prologue")

\* second loop: if i >= 6 (0-based): mov rax, [rbp + 16 + (i-6)*8]; store it
\* into the slot of parameter i
StackLoad ==
  /\ ppc = "stack"
  /\ p_i <= Len(params)
  /\ frame' = IF p_i - 1 >= 6
               THEN [frame EXCEPT ![p_i] = CallerSlot(p_i - 1 - 6)]
               ELSE frame
  /\ p_i' = p_i + 1
  /\ UNCHANGED <<params, ppc, p_curr_int, p_curr_float>>
  /\ Frame("prologue")

\* call __coatl_init_memory, then the body
PrologueDone ==
  /\ ppc = "stack"
  /\ p_i > Len(params)
  /\ ppc' = "body"
  /\ UNCHANGED <<params, frame, p_i, p_curr_int, p_curr_float>>
  /\ Frame("prologue")

NextPrologue == SpillFloat \/ SpillInt \/ SpillDone \/ StackLoad \/ PrologueDone

InitPrologue == PrologueInit /\ Idle("prologue")

SpecPrologue == InitPrologue /\ [][NextPrologue]_vars

\* The ABI place of parameter i of a signature.
AbiPlace(pt, i) ==
  IF InRegister(pt, i)
  THEN IF IsFloat(pt[i]) THEN XmmReg(RankIn(FloatParams(pt), i))
       ELSE IntReg(RankIn(IntParams(pt), i))
  ELSE CallerSlot(RankIn(StackParams(pt), i))

\* C6: when the body starts, the slot of every parameter holds the value of
\* the parameter's ABI place.
C6_ParamsFromAbiPlaces ==
  ppc = "body" => \A i \in 1..Len(params) : frame[i] = AbiPlace(params, i)

(***************************************************************************)
(* parse_fn_ir on a struct-returning function.  A parameter is named by    *)
(* its position and, for a flattened struct parameter, the field:          *)
(* <<i, "">> is the i-th declared parameter, <<i, "x">> is p__x.            *)
(***************************************************************************)
\* the <<name, type>> pairs of one declared parameter, as parse_params_ir
\* appends them to param_types_list
ParamPairs(i, ty, fields) ==
  IF ty \in SCALAR_TYPES
  THEN << <<<<i, "">>, ty>> >>
  ELSE [j \in 1..Len(fields) |-> <<<<i, fields[j]>>, "i32">>]

\* one turn of parse_params_ir's loop
ParseParam ==
  /\ kpc = "params"
  /\ decl_i <= Len(decl)
  /\ LET pairs == ParamPairs(decl_i, decl[decl_i], struct_fields)
     IN  /\ params_list' = params_list \o [j \in 1..Len(pairs) |-> pairs[j][1]]
         /\ param_types_list' = param_types_list \o pairs
  /\ decl_i' = decl_i + 1
  /\ UNCHANGED <<decl, kpc, out>>
  /\ Frame("companion")

\* parse_params_ir returns (params, params_ir); the return type is a struct,
\* so parse_fn_ir hands params, not params_ir, to parse_struct_return_fn_irs
ParamsDone ==
  /\ kpc = "params"
  /\ decl_i > Len(decl)
  /\ kpc' = "companions"
  /\ UNCHANGED <<decl, decl_i, params_list, param_types_list, out>>
  /\ Frame("companion")

\* param_sig: (param p i32) for every p in params
param_sig(ps) == [j \in 1..Len(ps) |-> <<ps[j], "i32">>]

\* one turn of for fld in self.struct_fields[ret_ty]
EmitCompanion ==
  /\ kpc = "companions"
  /\ Len(out) < Len(struct_fields)
  /\ out' = Append(out, [name |-> struct_fields[Len(out) + 1],
                         params |-> param_sig(params_list),
                         ret |-> "i32"])
  /\ UNCHANGED <<decl, kpc, decl_i, params_list, param_types_list>>
  /\ Frame("companion")

CompanionsDone ==
  /\ kpc = "companions"
  /\ Len(out) = Len(struct_fields)
  /\ kpc' = "done"
  /\ UNCHANGED <<decl, decl_i, params_list, param_types_list, out>>
  /\ Frame("companion")

NextCompanion == ParseParam \/ ParamsDone \/ EmitCompanion \/ CompanionsDone

InitCompanion == CompanionInit /\ Idle("companion")

SpecCompanion == InitCompanion /\ [][NextCompanion]_vars

\* The parameter list the declaration gives: each scalar parameter with its
\* declared type, each struct parameter replaced by one i32 per field.
RECURSIVE DeclaredParams(_, _, _)
DeclaredParams(d, i, fields) ==
  IF i > Len(d) THEN <<>>
  ELSE (IF d[i] = "S"
        THEN [j \in 1..Len(fields) |-> <<<<i, fields[j]>>, "i32">>]
        ELSE << <<<<i, "">>, d[i]>> >>) \o DeclaredParams(d, i + 1, fields)

\* C7: a function declared to return S is emitted as one function per field,
\* in declaration order, each returning i32 and each with the declared
\* parameter list, scalar types kept, struct parameters flattened to i32s.
C7_CompanionPerField ==
  kpc = "done" =>
    /\ Len(out) = Len(struct_fields)
    /\ \A j \in 1..Len(out) :
         /\ out[j].name = struct_fields[j]
         /\ out[j].ret = "i32"
         /\ out[j].params = DeclaredParams(decl, 1, struct_fields)

(***************************************************************************)
(* A struct literal S { f: e, ... }, in a let initializer or a return.     *)
(***************************************************************************)
Range(f) == {f[i] : i \in DOMAIN f}

\* one turn of the while loop of either parser: vals[fld] = self.parse_expr_ir()
LiteralField ==
  /\ lpc = "fields"
  /\ lit_i <= Len(lit)
  /\ vals' = [k \in DOMAIN vals \cup {lit[lit_i]} |->
                IF k = lit[lit_i] THEN lit_i ELSE vals[k]]
  /\ lit_i' = lit_i + 1
  /\ UNCHANGED <<ctx, lit, lpc, lets>>
  /\ Frame("literal")

\* the two checks after the closing brace: a key of vals that is not a field,
\* then a field that is not a key of vals
FieldsMatch == /\ \A fld \in DOMAIN vals : fld \in Range(struct_fields)
               /\ \A fld \in Range(struct_fields) : fld \in DOMAIN vals

\* parse_struct_init_stmt_ir after the loop: the checks, then one let per
\* declared field
LetLiteralCheck ==
  /\ lpc = "fields"
  /\ lit_i > Len(lit)
  /\ ctx = "let"
  /\ IF FieldsMatch
     THEN /\ lpc' = "accepted"
          /\ lets' = [j \in 1..Len(struct_fields) |->
                        <<struct_fields[j], vals[struct_fields[j]]>>]
     ELSE /\ lpc' = "ParseError"
          /\ lets' = lets
  /\ UNCHANGED <<ctx, lit, lit_i, vals>>
  /\ Frame("literal")

\* parse_struct_return_literal after the loop: the checks, then return vals
ReturnLiteralCheck ==
  /\ lpc = "fields"
  /\ lit_i > Len(lit)
  /\ ctx = "return"
  /\ lpc' = IF FieldsMatch THEN "accepted" ELSE "ParseError"
  /\ UNCHANGED <<ctx, lit, lit_i, vals, lets>>
  /\ Frame("literal")

NextLiteral == LiteralField \/ LetLiteralCheck \/ ReturnLiteralCheck

InitLiteral == LiteralInit /\ Idle("literal")

SpecLiteral == InitLiteral /\ [][NextLiteral]_vars

\* The literal names exactly the declared fields, each exactly once.
ExactlyOnce ==
  /\ Len(lit) = Len(struct_fields)
  /\ Range(lit) = Range(struct_fields)

\* C8: a struct literal is accepted if and only if its field names are the
\* declared fields, each written exactly once; otherwise ParseError.
C8_LiteralExactFields ==
  lpc \in {"accepted", "ParseError"} => (lpc = "accepted" <=> ExactlyOnce)

(***************************************************************************)
(* let x: S = mk(arg); as the frontend scalarizes it and the backend runs  *)
(* it: one call of mk__ret__<fld> per field.                               *)
(***************************************************************************)
\* what a dword store followed by a dword load (mov eax, dword ptr [...],
\* which clears the upper half of rax) keeps of a value
Low32(v) == QWord(0, v.lo)

\* the value of a field expression with the parameter reading a and the
\* memory word reading m
Eval(kind, a, m) ==
  CASE kind = "a" -> a
    [] kind = "a_eq_1" -> IF a = QWord(0, 1) THEN QWord(0, 1) ELSE QWord(0, 0)
    [] kind = "load" -> QWord(0, m)

\* (let x__fld i32 (call mk__ret__fld arg)): the companion's prologue stores
\* the parameter, typed i32 by param_sig, as a dword; the body, parsed again
\* for this field, runs; the return picks ret_vals[fld]; the let stores eax
CallCompanion ==
  /\ zpc = "let"
  /\ Len(locals) < Len(struct_fields)
  /\ LET j == Len(locals) + 1
         a_slot == Low32(arg)
         mem1 == IF bumps THEN mem + 1 ELSE mem
     IN  /\ mem' = mem1
         /\ locals' = Append(locals, Low32(Eval(ret_exprs[j], a_slot, mem1)))
  /\ UNCHANGED <<mk_param_ty, arg, bumps, ret_exprs, zpc, assigned, before>>
  /\ Frame("scalarize")

LetDone ==
  /\ zpc = "let"
  /\ Len(locals) = Len(struct_fields)
  /\ zpc' = "after_let"
  /\ UNCHANGED <<mk_param_ty, arg, bumps, ret_exprs, mem, locals, assigned, before>>
  /\ Frame("scalarize")

\* x.fld = v;  is (assign x__fld v)
FieldAssign ==
  /\ zpc = "after_let"
  /\ \E j \in 1..Len(struct_fields) : \E v \in {0, 9} :
       /\ locals' = [locals EXCEPT ![j] = QWord(0, v)]
       /\ assigned' = j
  /\ before' = locals
  /\ zpc' = "assigned"
  /\ UNCHANGED <<mk_param_ty, arg, bumps, ret_exprs, mem>>
  /\ Frame("scalarize")

NextScalarize == CallCompanion \/ LetDone \/ FieldAssign

InitScalarize == ScalarizeInit /\ Idle("scalarize")

SpecScalarize == InitScalarize /\ [][NextScalarize]_vars

\* The value the source program gives field j: mk runs once, with a bound to
\* arg, and the literal's expressions are evaluated after its body.
SourceField(j) == Eval(ret_exprs[j], arg, IF bumps THEN 1 ELSE 0)

\* C9: after let x: S = mk(arg) every x.f reads the value of its expression
\* in the one execution of mk, and x.f = v changes only x__f.
C9_ScalarizationPreservesValues ==
  /\ zpc = "after_let" => \A j \in 1..Len(struct_fields) : locals[j] = SourceField(j)
  /\ zpc = "assigned" =>
       \A j \in 1..Len(struct_fields) : j # assigned => locals[j] = before[j]

(***************************************************************************)
(* A function body parsed by the frontend, then lowered by the backend.    *)
(***************************************************************************)
\* parse_block_ir: one parse_stmt_ir
ParseStmt ==
  /\ xpc = "frontend"
  /\ source # <<>>
  /\ ir' = ir \o FrontendIR[Head(source)]
  /\ source' = Tail(source)
  /\ UNCHANGED <<visiting, xpc>>
  /\ Frame("contract")

\* the frontend has accepted the program; the IR goes to the backend
ParseDone ==
  /\ xpc = "frontend"
  /\ source = <<>>
  /\ xpc' = "backend"
  /\ UNCHANGED <<source, ir, visiting>>
  /\ Frame("contract")

\* emit_block: emit_stmt on the next statement, up to its first emit_expr
LowerStmt ==
  /\ xpc = "backend"
  /\ visiting = <<>>
  /\ ir # <<>>
  /\ IF Head(ir).tag \in StmtTags
     THEN /\ visiting' = Head(ir).expr
          /\ xpc' = xpc
     ELSE /\ visiting' = visiting
          /\ xpc' = "LowerError"
  /\ ir' = Tail(ir)
  /\ UNCHANGED source
  /\ Frame("contract")

\* emit_expr on the next node: a branch for its tag, or
\* raise LowerError("unsupported expr: ...")
LowerExpr ==
  /\ xpc = "backend"
  /\ visiting # <<>>
  /\ IF Head(visiting) \in ExprTags
     THEN /\ visiting' = Tail(visiting)
          /\ xpc' = xpc
     ELSE /\ visiting' = visiting
          /\ xpc' = "LowerError"
  /\ UNCHANGED <<source, ir>>
  /\ Frame("contract")

LowerDone ==
  /\ xpc = "backend"
  /\ visiting = <<>>
  /\ ir = <<>>
  /\ xpc' = "lowered"
  /\ UNCHANGED <<source, ir, visiting>>
  /\ Frame("contract")

NextContract == ParseStmt \/ ParseDone \/ LowerStmt \/ LowerExpr \/ LowerDone

InitContract == ContractInit /\ Idle("contract")

SpecContract == InitContract /\ [][NextContract]_vars

\* C10: every program the frontend accepts is lowered: the backend raises no
\* LowerError on a node the frontend emitted.
C10_FrontendIrIsLowered == xpc # "LowerError"

(***************************************************************************)
(* String interning in lower_ir_to_asm_text, and the emitted               *)
(* __coatl_init_memory and __mem_store8 in the running program.            *)
(***************************************************************************)
\* for tok in collect_string_literals(block): str_tokens[tok] = None
CollectLiteral ==
  /\ gpc = "collect"
  /\ literals # <<>>
  /\ str_tokens' = IF Head(literals) \in Range(str_tokens) THEN str_tokens
                   ELSE Append(str_tokens, Head(literals))
  /\ literals' = Tail(literals)
  /\ UNCHANGED <<string_addrs, next_addr, gpc, coatl_mem, coatl_mem_inited, init_runs>>
  /\ Frame("strings")

CollectDone ==
  /\ gpc = "collect"
  /\ literals = <<>>
  /\ gpc' = "assign"
  /\ UNCHANGED <<literals, str_tokens, string_addrs, next_addr, coatl_mem,
                 coatl_mem_inited, init_runs>>
  /\ Frame("strings")

\* one turn of for tok in str_tokens.keys(): the address, then
\* next_addr += len(data) + 1
AssignAddr ==
  /\ gpc = "assign"
  /\ Len(string_addrs) < Len(str_tokens)
  /\ LET tok == str_tokens[Len(string_addrs) + 1]
     IN  /\ string_addrs' = Append(string_addrs, next_addr)
         /\ next_addr' = next_addr + Len(decode_string_token(tok)) + 1
  /\ UNCHANGED <<literals, str_tokens, gpc, coatl_mem, coatl_mem_inited, init_runs>>
  /\ Frame("strings")

\* the assembly is emitted and the program starts: .bss is zero
AssignDone ==
  /\ gpc = "assign"
  /\ Len(string_addrs) = Len(str_tokens)
  /\ gpc' = "run"
  /\ coatl_mem' = [a \in StringBase..(next_addr - 1) |-> 0]
  /\ UNCHANGED <<literals, str_tokens, string_addrs, next_addr, coatl_mem_inited,
                 init_runs>>
  /\ Frame("strings")

\* string_entries: the byte the block stores at address a
EntryByte(a) ==
  LET k == CHOOSE k \in 1..Len(str_tokens) :
             /\ string_addrs[k] <= a
             /\ a <= string_addrs[k] + Len(decode_string_token(str_tokens[k]))
      data == decode_string_token(str_tokens[k]) \o <<0>>
  IN  data[a - string_addrs[k] + 1]

\* a function is called: its prologue calls __coatl_init_memory, which
\* returns at once unless the guard word reads 0
CallInitMemory ==
  /\ gpc = "run"
  /\ IF coatl_mem_inited = 0
     THEN /\ init_runs < MaxInitRuns
          /\ coatl_mem_inited' = 1
          /\ coatl_mem' = [a \in DOMAIN coatl_mem |-> EntryByte(a)]
          /\ init_runs' = init_runs + 1
     ELSE UNCHANGED <<coatl_mem, coatl_mem_inited, init_runs>>
  /\ UNCHANGED <<literals, str_tokens, string_addrs, next_addr, gpc>>
  /\ Frame("strings")

\* the program calls __mem_store8(off, v): mov byte ptr [__coatl_mem + off], sil
\* with no check of off; offset MemSize is the low byte of the guard word
MemStore8 ==
  /\ gpc = "run"
  /\ init_runs >= 1
  /\ \E off \in {StringBase, MemSize} : \E v \in {0, 66} :
       IF off = MemSize
       THEN /\ coatl_mem_inited' = v
            /\ coatl_mem' = coatl_mem
       ELSE /\ off \in DOMAIN coatl_mem
            /\ coatl_mem' = [coatl_mem EXCEPT ![off] = v]
            /\ coatl_mem_inited' = coatl_mem_inited
  /\ UNCHANGED <<literals, str_tokens, string_addrs, next_addr, gpc, init_runs>>
  /\ Frame("strings")

NextStrings ==
  CollectLiteral \/ CollectDone \/ AssignAddr \/ AssignDone \/ CallInitMemory
    \/ MemStore8

InitStrings == StringsInit /\ Idle("strings")

SpecStrings == InitStrings /\ [][NextStrings]_vars

\* The bytes a literal stands for: each character its own byte, each escape
\* the single byte it names.
RECURSIVE LexerBytes(_)
LexerBytes(tok) ==
  IF tok = <<>> THEN <<>> ELSE <<Head(tok).v>> \o LexerBytes(Tail(tok))

\* the addresses of the bytes of the k-th interned token, NUL included
ByteRange(k) ==
  string_addrs[k]..(string_addrs[k] + Len(decode_string_token(str_tokens[k])))

\* C11: literals with equal decoded bytes get one address; literals with
\* different decoded bytes get disjoint byte ranges.
C11_InternedByContent ==
  gpc = "run" =>
    \A j, k \in 1..Len(str_tokens) :
      IF LexerBytes(str_tokens[j]) = LexerBytes(str_tokens[k])
      THEN string_addrs[j] = string_addrs[k]
      ELSE ByteRange(j) \cap ByteRange(k) = {}

\* C12: once the block has run, and before the program stores anything, the
\* memory at each literal's address holds the literal's bytes, then a NUL.
C12_InitWritesDecodedBytes ==
  (gpc = "run" /\ init_runs = 1 /\ coatl_mem = [a \in DOMAIN coatl_mem |-> EntryByte(a)]) =>
    \A k \in 1..Len(str_tokens) :
      LET want == LexerBytes(str_tokens[k]) \o <<0>>
      IN  \A i \in 1..Len(want) :
            /\ string_addrs[k] + i - 1 \in DOMAIN coatl_mem
            /\ coatl_mem[string_addrs[k] + i - 1] = want[i]

\* C13: the string-writing block runs at most once, and once it has run the
\* guard word never reads 0 again.
C13_InitRunsOnce ==
  /\ init_runs <= 1
  /\ init_runs >= 1 => coatl_mem_inited # 0

(***************************************************************************)
(* link_single_obj.                                                        *)
(***************************************************************************)
\* sym_addr with the .bss case answering from text_vaddr
sym_addr_bss_in_text(sym) ==
  IF sym.st_shndx = SHN_UNDEF THEN Raised("LinkError")
  ELSE IF sym.st_shndx = SHN_ABS THEN Addr(sym.st_value)
  ELSE IF sym.st_shndx = text_idx THEN Addr(text_vaddr + sym.st_value)
  ELSE IF bss_idx # 0 /\ sym.st_shndx = bss_idx THEN Addr(text_vaddr + sym.st_value)
  ELSE Raised("LinkError")

\* sym_addr(sym): the address, or the exception raised
sym_addr(sym) ==
  IF sym.st_shndx = SHN_UNDEF THEN Raised("LinkError")
  ELSE IF sym.st_shndx = SHN_ABS THEN Addr(sym.st_value)
  ELSE IF sym.st_shndx = text_idx THEN Addr(text_vaddr + sym.st_value)
  ELSE IF bss_idx # 0 /\ sym.st_shndx = bss_idx THEN Addr(bss_vaddr + sym.st_value)
  ELSE Raised("LinkError")

\* val = s_addr + r_addend - p_addr, r_addend = ah * 65536 + al
Val(s_addr, ah, al, p_addr) ==
  LET d == s_addr + al - p_addr
  IN  [hi |-> ah + (d \div 65536), lo |-> d % 65536]

\* -0x80000000 <= val <= 0x7FFFFFFF
InRange(val) == -32768 <= val.hi /\ val.hi <= 32767

\* struct.pack("<i", val)
Pack(val) ==
  <<val.lo % 256, val.lo \div 256, val.hi % 256, (val.hi % 65536) \div 256>>

\* text[r_offset:r_offset + 4] = bytes: a slice assignment, which replaces
\* what the slice holds of text, whatever its length
SliceAssign(t, r_offset, bytes) ==
  LET lo == Min(r_offset, Len(t))
      hi == Min(r_offset + 4, Len(t))
  IN  SubSeq(t, 1, lo) \o bytes \o SubSeq(t, hi + 1, Len(t))

\* The entries considered, with addend -4: offsets at the start, two bytes
\* before the end and past the end of .text; the two supported types; a
\* symbol of every kind and the index one past the table.  Then an entry of
\* type 1, and entries with addends 0x7FFEFFFC and 0x7FFFFFFC.
RelaEntries ==
  [r_offset : {0, Len(text) - 2, Len(text) + 1},
   r_type : {R_X86_64_PC32, R_X86_64_PLT32},
   r_sym : {0, 2, 3, 4, 5, Len(syms)},
   ah : {0},
   al : {-4}]
  \cup [r_offset : {0}, r_type : {1}, r_sym : {0}, ah : {0}, al : {-4}]
  \cup [r_offset : {0}, r_type : {R_X86_64_PC32}, r_sym : {1}, ah : {32767, 32768},
         al : {-4}]

\* one turn of for i in range(rela_count)
ApplyRela ==
  /\ lkpc = "relas"
  /\ relas_left > 0
  /\ relas_left' = relas_left - 1
  /\ \E r \in RelaEntries :
       LET s_addr == sym_addr(syms[r.r_sym + 1])
           val == Val(s_addr.addr, r.ah, r.al, text_vaddr + r.r_offset)
           done(outcome, s, b) ==
             /\ last' = [rela |-> r, before |-> text, s_addr |-> s, bytes |-> b,
                         outcome |-> outcome]
             /\ lkpc' = IF outcome = "patched" THEN lkpc ELSE outcome
             /\ text' = IF outcome = "patched"
                         THEN SliceAssign(text, r.r_offset, b) ELSE text
       IN  IF r.r_type \notin {R_X86_64_PC32, R_X86_64_PLT32}
           THEN done("LinkError", Unresolved, <<>>)
           ELSE IF r.r_sym + 1 > Len(syms)
           THEN done("IndexError", Unresolved, <<>>)
           ELSE IF s_addr.err # ""
           THEN done(s_addr.err, s_addr, <<>>)
           ELSE IF ~InRange(val)
           THEN done("LinkError", s_addr, <<>>)
           ELSE done("patched", s_addr, Pack(val))
  /\ UNCHANGED <<bss_idx, bss_size, bss_vaddr, entry_name, entry_addr, phdr>>
  /\ Frame("link")

\* the entries are all applied; for sym in syms: the first symbol named
\* entry_name
ResolveEntry ==
  /\ lkpc = "relas"
  /\ LET named == {i \in 1..Len(syms) : syms[i].st_name = entry_name}
         addr == IF named = {} THEN Raised("LinkError")
                 ELSE sym_addr(syms[CHOOSE i \in named : \A j \in named : i <= j])
     IN  /\ entry_addr' = addr
         /\ lkpc' = IF addr.err # "" THEN addr.err ELSE "write"
  /\ UNCHANGED <<text, bss_idx, bss_size, bss_vaddr, entry_name, relas_left, last, phdr>>
  /\ Frame("link")

\* the headers and out = file_prefix + text
WriteExe ==
  /\ lkpc = "write"
  /\ phdr' = [p_flags |-> 7, p_offset |-> 0, p_vaddr |-> base,
              filesz |-> text_off + Len(text),
              memsz |-> (bss_vaddr + bss_size) - base,
              p_align |-> 4096]
  /\ lkpc' = "written"
  /\ UNCHANGED <<text, bss_idx, bss_size, bss_vaddr, entry_name, relas_left, last,
                 entry_addr>>
  /\ Frame("link")

NextLink == ApplyRela \/ ResolveEntry \/ WriteExe

InitLink == LinkInit /\ Idle("link")

SpecLink == InitLink /\ [][NextLink]_vars

\* The address the table of the specification gives a symbol.
TableAddr(sym) ==
  CASE sym.st_shndx = text_idx -> Addr(text_vaddr + sym.st_value)
    [] bss_idx # 0 /\ sym.st_shndx = bss_idx -> Addr(bss_vaddr + sym.st_value)
    [] sym.st_shndx = SHN_ABS -> Addr(sym.st_value)
    [] OTHER -> Raised("LinkError")

\* C14: an entry of .rela.text either raises LinkError or replaces exactly
\* the 4 bytes at r_offset by S + A - P; a type other than 2 and 4 and a
\* value outside the 32-bit range raise LinkError.
C14_RelaPatchesFourBytes ==
  last.outcome # "none" =>
    LET r == last.rela
        val == Val(last.s_addr.addr, r.ah, r.al, text_vaddr + r.r_offset)
    IN  /\ last.outcome \in {"patched", "LinkError"}
        /\ r.r_type \notin {R_X86_64_PC32, R_X86_64_PLT32} => last.outcome = "LinkError"
        /\ last.outcome = "patched" =>
             /\ InRange(val)
             /\ Len(text) = Len(last.before)
             /\ r.r_offset + 4 <= Len(text)
             /\ \A i \in 1..Len(text) :
                  text[i] = IF r.r_offset < i /\ i <= r.r_offset + 4
                            THEN Pack(val)[i - r.r_offset] ELSE last.before[i]

\* C15: a symbol resolves to text_vaddr + st_value, bss_vaddr + st_value or
\* st_value by its section, LinkError for SHN_UNDEF and other sections; the
\* relocation value and the entry address (first symbol of that name,
\* LinkError if none) use this address.
C15_SymbolResolution ==
  /\ last.s_addr # Unresolved =>
       /\ last.s_addr = TableAddr(syms[last.rela.r_sym + 1])
       /\ last.outcome = "patched" =>
            last.bytes = Pack(Val(TableAddr(syms[last.rela.r_sym + 1]).addr,
                                  last.rela.ah, last.rela.al,
                                  text_vaddr + last.rela.r_offset))
  /\ entry_addr # Unresolved =>
       LET named == {i \in 1..Len(syms) : syms[i].st_name = entry_name}
       IN  IF named = {} THEN entry_addr = Raised("LinkError")
           ELSE \E i \in named : /\ \A j \in named : i <= j
                                 /\ entry_addr = TableAddr(syms[i])

\* an executable is written whose last relocation went to the .bss symbol
\* and whose entry is the first of the two symbols named f
C15_Witness ==
  /\ lkpc = "written"
  /\ last.outcome = "patched"
  /\ syms[last.rela.r_sym + 1].st_shndx = bss_idx
  /\ last.s_addr = Addr(bss_vaddr + 4)
  /\ entry_name = "f"
  /\ entry_addr = Addr(text_vaddr + 8)

\* C16: in a written executable .bss starts at the smallest 16-byte-aligned
\* address at or after the end of the text image, and the PT_LOAD header has
\* flags 7, align 0x1000, offset 0, vaddr 0x400000 and
\* filesz = 0x1000 + len(text) <= memsz = bss_end - 0x400000.
C16_ExecutableLayout ==
  lkpc = "written" =>
    /\ bss_vaddr = align_up(text_vaddr + Len(text), 16)
    /\ bss_vaddr >= text_vaddr + Len(text)
    /\ phdr.p_flags = 7 /\ phdr.p_align = 4096 /\ phdr.p_offset = 0
    /\ phdr.p_vaddr = base
    /\ phdr.filesz = text_off + Len(text)
    /\ phdr.memsz = bss_vaddr + bss_size - base
    /\ phdr.filesz <= phdr.memsz

\* C30: a patched entry leaves the text image as long as it was, which is
\* the length bss_vaddr was computed from, and changes no byte outside
\* [r_offset, r_offset + 4).
C30_RelaKeepsTextLength ==
  last.outcome = "patched" =>
    /\ Len(text) = Len(last.before)
    /\ bss_vaddr = align_up(text_vaddr + Len(text), 16)
    /\ \A i \in 1..Len(text) :
         (i <= last.rela.r_offset \/ i > last.rela.r_offset + 4) =>
           text[i] = last.before[i]

(***************************************************************************)
(* lower_ir_to_asm_text on an IR tree.                                     *)
(***************************************************************************)
\* the first check with the v1 test left out
root_check_any_version(r) ==
  IF ~r.is_list THEN "LowerError"
  ELSE IF r.len = 4 /\ r.name = "(list)" THEN "LowerError"
  ELSE IF r.len # 4 \/ r.name # "coatl_ir"
  THEN (IF r.len < 2 THEN "IndexError" ELSE "LowerError")
  ELSE "ok"

\* top = as_list(root); if len(top) != 4 or as_atom(top[0]) != "coatl_ir" or
\* as_atom(top[1]) != "v1": raise LowerError(f"... {as_atom(top[1])}"):
\* the exception that leaves, "ok" if none
root_check(r) ==
  IF ~r.is_list THEN "LowerError"
  ELSE IF r.len = 4 /\ r.name = "(list)" THEN "LowerError"
  ELSE IF r.len = 4 /\ r.name = "coatl_ir" /\ r.ver = "(list)" THEN "LowerError"
  ELSE IF r.len # 4 \/ r.name # "coatl_ir" \/ r.ver # "v1"
  THEN (IF r.len < 2 THEN "IndexError" ELSE "LowerError")
  ELSE "ok"

CheckRoot ==
  /\ opc = "root"
  /\ opc' = IF root_check(root) = "ok" THEN "functions" ELSE root_check(root)
  /\ UNCHANGED <<root, fn_head, stmt, lowered_ty, skipped>>
  /\ Frame("ir")

\* structs = as_list(top[2]); functions = as_list(top[3]);
\* parsed = [parse_fn(as_list(f)) for f in functions[1:]]: the heads of the
\* two sections are not read, the head of a function is
ParseFns ==
  /\ opc = "functions"
  /\ opc' = IF fn_head # "fn" THEN "LowerError" ELSE "body"
  /\ skipped' = (skipped \/ root.sec2 # "structs" \/ root.sec3 # "functions")
  /\ UNCHANGED <<root, fn_head, stmt, lowered_ty>>
  /\ Frame("ir")

\* emit_expr on the expression of the statement: the exception, or "ok"
emit_expr(st) ==
  IF st.expr \in {"int", "binary"} THEN "ok" ELSE "LowerError"

\* the dispatch at the end of the binary branch
binary_ty(ty) == IF ty \in {"i64", "f32", "f64"} THEN ty ELSE "i32"

\* emit_function: emit_block on the block, emit_stmt on its statement
EmitBody ==
  /\ opc = "body"
  /\ IF stmt.tag = "return"
     THEN /\ opc' = IF emit_expr(stmt) = "ok" THEN "emitted" ELSE emit_expr(stmt)
          /\ lowered_ty' = IF stmt.expr = "binary" THEN binary_ty(stmt.ty) ELSE lowered_ty
          /\ skipped' = skipped
     ELSE IF stmt.tag = "if"
     THEN /\ opc' = IF emit_expr(stmt) = "ok" THEN "emitted" ELSE emit_expr(stmt)
          /\ lowered_ty' = lowered_ty
          /\ skipped' = (skipped \/ stmt.third \notin {"none", "else"})
     ELSE /\ opc' = "LowerError"
          /\ UNCHANGED <<lowered_ty, skipped>>
  /\ UNCHANGED <<root, fn_head, stmt>>
  /\ Frame("ir")

NextIr == CheckRoot \/ ParseFns \/ EmitBody

InitIr == IrInit /\ Idle("ir")

SpecIr == InitIr /\ [][NextIr]_vars

Errors == {"LowerError", "IndexError"}

\* the root is a 4-element list that starts with coatl_ir v1
RootIsV1(r) == r.is_list /\ r.len = 4 /\ r.name = "coatl_ir" /\ r.ver = "v1"

\* C17: a root that is not a 4-element list starting with coatl_ir v1 ends
\* in an error at the first check, before any function is lowered.
C17_OtherRootsRejected ==
  (~RootIsV1(root) /\ opc # "root") => opc \in Errors

\* the output of the older frontend, (mee_ir v0 (structs) (functions ...)),
\* has been rejected
C17_Witness ==
  /\ root.is_list /\ root.len = 4 /\ root.name = "mee_ir" /\ root.ver = "v0"
  /\ root.sec2 = "structs" /\ root.sec3 = "functions"
  /\ opc = "LowerError"

\* C18: a tree is lowered only if every list node has the head expected at
\* its place, so none is passed over.
C18_UnknownNodesRejected ==
  opc = "emitted" =>
    /\ root.sec2 = "structs" /\ root.sec3 = "functions"
    /\ fn_head = "fn"
    /\ stmt.tag \in {"return", "if"}
    /\ stmt.third \in {"none", "else"}
    /\ stmt.expr \in {"int", "binary"}
    /\ ~skipped

\* C19: a binary node with a type annotation is lowered only if the
\* annotation is i32, i64, f32 or f64.
C19_UnknownBinaryTypeRejected ==
  (opc = "emitted" /\ stmt.expr = "binary" /\ stmt.ty # "none") =>
    stmt.ty \in {"i32", "i64", "f32", "f64"}

(***************************************************************************)
(* Name resolution in the frontend and in the codegen.                     *)
(***************************************************************************)
\* Parser.var_type: the recorded type, i32 for a name never declared
var_type(name) ==
  IF name \in local_types \cup Params THEN "i32" ELSE "i32"

\* parse_stmt_ir on the next statement: a let records its name, a read or
\* an assignment asks var_type and is never refused
FrontendStmt ==
  /\ npc = "parse"
  /\ n_i <= Len(body)
  /\ var_type(body[n_i].name) = "i32"
  /\ local_types' = IF body[n_i].kind \in LetKinds
                     THEN local_types \cup {body[n_i].name} ELSE local_types
  /\ n_i' = n_i + 1
  /\ UNCHANGED <<body, slots, npc>>
  /\ Frame("names")

\* the frontend is through; FnEmitter.__init__ gives each parameter a slot
FrontendDone ==
  /\ npc = "parse"
  /\ n_i > Len(body)
  /\ npc' = "collect"
  /\ n_i' = 1
  /\ slots' = Params
  /\ UNCHANGED <<body, local_types>>
  /\ Frame("names")

\* collect_locals on the next statement: a let, and a let inside an if
\* branch or a while body, get a slot wherever they stand
collect_locals ==
  /\ npc = "collect"
  /\ n_i <= Len(body)
  /\ slots' = IF body[n_i].kind \in LetKinds
               THEN slots \cup {body[n_i].name} ELSE slots
  /\ n_i' = n_i + 1
  /\ UNCHANGED <<body, local_types, npc>>
  /\ Frame("names")

CollectLocalsDone ==
  /\ npc = "collect"
  /\ n_i > Len(body)
  /\ npc' = "emit"
  /\ n_i' = 1
  /\ UNCHANGED <<body, local_types, slots>>
  /\ Frame("names")

\* emit_stmt / emit_expr on the next statement: var_offset raises
\* LowerError("unknown local") for a name without a slot
EmitNamed ==
  /\ npc = "emit"
  /\ n_i <= Len(body)
  /\ IF body[n_i].name \in slots
     THEN /\ n_i' = n_i + 1
          /\ npc' = npc
     ELSE /\ npc' = "LowerError"
          /\ n_i' = n_i
  /\ UNCHANGED <<body, local_types, slots>>
  /\ Frame("names")

EmitNamedDone ==
  /\ npc = "emit"
  /\ n_i > Len(body)
  /\ npc' = "lowered"
  /\ UNCHANGED <<body, local_types, slots, n_i>>
  /\ Frame("names")

NextNames ==
  \/ FrontendStmt
  \/ FrontendDone
  \/ collect_locals
  \/ CollectLocalsDone
  \/ EmitNamed
  \/ EmitNamedDone

InitNames == NamesInit /\ Idle("names")

SpecNames == InitNames /\ [][NextNames]_vars

\* statement i uses a name that is a parameter or that a let at the top of
\* the block, before i, declares
Dominated(i) ==
  \/ body[i].name \in Params
  \/ \E j \in 1..(i - 1) : body[j].kind = "let" /\ body[j].name = body[i].name

\* C20: in a function that was lowered, every read and every assignment
\* names a parameter or a let that precedes and dominates it.
C20_UsesAreDominated ==
  npc = "lowered" =>
    \A i \in 1..Len(body) : body[i].kind \in {"read", "assign"} => Dominated(i)

(***************************************************************************)
(* FnEmitter.__init__: the frame layout.                                   *)
(***************************************************************************)
\* the rounding left out
align16_none(n) == n

\* (n + 15) & ~15
align16(n) == ((n + 15) \div 16) * 16

\* a < b for two strings: the order sorted() uses
RECURSIVE StrLess(_, _)
StrLess(a, b) ==
  IF b = <<>> THEN FALSE
  ELSE IF a = <<>> THEN TRUE
  ELSE IF Head(a) # Head(b) THEN Head(a) < Head(b)
  ELSE StrLess(Tail(a), Tail(b))

\* sorted(S): the least element, then the rest sorted
RECURSIVE sorted(_)
sorted(S) ==
  IF S = {} THEN <<>>
  ELSE LET m == CHOOSE x \in S : \A y \in S \ {x} : StrLess(x, y)
       IN  <<m>> \o sorted(S \ {m})

\* for p_name, p_type in params: self.vars[p_name] = p_type
FrameParam ==
  /\ fpc = "params"
  /\ IF f_i <= Len(fn_params)
     THEN /\ fn_vars' = fn_vars \cup {fn_params[f_i]}
          /\ f_i' = f_i + 1
          /\ fpc' = fpc
     ELSE /\ fpc' = "lets"
          /\ f_i' = 1
          /\ fn_vars' = fn_vars
  /\ UNCHANGED <<fn_params, fn_lets, var_off, stack_size>>
  /\ Frame("frame")

\* collect_locals(block, self.vars): out[name] = ty for each let
FrameLet ==
  /\ fpc = "lets"
  /\ IF f_i <= Len(fn_lets)
     THEN /\ fn_vars' = fn_vars \cup {fn_lets[f_i]}
          /\ f_i' = f_i + 1
          /\ fpc' = fpc
     ELSE /\ fpc' = "layout"
          /\ f_i' = f_i
          /\ fn_vars' = fn_vars
  /\ UNCHANGED <<fn_params, fn_lets, var_off, stack_size>>
  /\ Frame("frame")

\* ordered_vars = sorted(self.vars.keys());
\* var_off = {v: (i + 1) * 8 for i, v in enumerate(ordered_vars)};
\* stack_size = align16(len(ordered_vars) * 8)
FrameLayout ==
  /\ fpc = "layout"
  /\ LET ordered_vars == sorted(fn_vars)
     IN  /\ var_off' = [v \in fn_vars |->
                         LET i == CHOOSE k \in 1..Len(ordered_vars) : ordered_vars[k] = v
                         IN  i * 8]
         /\ stack_size' = align16(Len(ordered_vars) * 8)
  /\ fpc' = "laid"
  /\ UNCHANGED <<fn_params, fn_lets, fn_vars, f_i>>
  /\ Frame("frame")

NextFrame == FrameParam \/ FrameLet \/ FrameLayout

InitFrame == FrameInit /\ Idle("frame")

SpecFrame == InitFrame /\ [][NextFrame]_vars

\* the names of the function
DeclaredNames == Range(fn_params) \cup Range(fn_lets)

\* C28: each distinct parameter or let name has the 8-byte slot at offset
\* 8 * (its rank among the names, from 1); two names never overlap, every
\* slot [rbp - off, rbp - off + 8) lies in [rbp - stack_size, rbp), and
\* stack_size is a multiple of 16 that is at least 8 * (number of names).
C28_FrameLayout ==
  fpc = "laid" =>
    /\ DOMAIN var_off = DeclaredNames
    /\ \A v \in DeclaredNames :
         /\ var_off[v] = 8 * Cardinality({w \in DeclaredNames : w = v \/ StrLess(w, v)})
         /\ 8 <= var_off[v] /\ var_off[v] <= stack_size
    /\ \A v, w \in DeclaredNames :
         v # w => (var_off[v] + 8 <= var_off[w] \/ var_off[w] + 8 <= var_off[v])
    /\ stack_size % 16 = 0
    /\ stack_size >= 8 * Cardinality(DeclaredNames)

\* a frame of three names is laid out, one of them both a parameter and a let
C28_Witness ==
  /\ fpc = "laid"
  /\ Cardinality(fn_vars) = 3
  /\ Range(fn_params) \cap Range(fn_lets) # {}
  /\ stack_size = 32

(***************************************************************************)
(* parse_array_init_ir.                                                    *)
(***************************************************************************)
\* int(text) of a literal
RECURSIVE IntOfDigits(_)
IntOfDigits(ds) ==
  IF ds = <<>> THEN 0
  ELSE 10 * IntOfDigits(SubSeq(ds, 1, Len(ds) - 1)) + ds[Len(ds)]

\* the comparison made on the texts of the literals
size_mismatch_text(count, size) == count_tok # size_tok

\* count != arr_size
size_mismatch(count, size) == count # size

\* arr_size = int(m.group(2)); count = int(count_tok.text); the comparison;
\* out = (let a i32 (array_alloc T arr_size))
ArrayCheck ==
  /\ apc = "check"
  /\ arr_size' = IntOfDigits(size_tok)
  /\ IF size_mismatch(IntOfDigits(count_tok), IntOfDigits(size_tok))
     THEN /\ apc' = "ParseError"
          /\ arr_out' = arr_out
     ELSE /\ apc' = "sets"
          /\ arr_out' = <<[node |-> "let", n |-> IntOfDigits(size_tok)]>>
  /\ UNCHANGED <<size_tok, count_tok, arr_i>>
  /\ Frame("array")

\* one turn of for i in range(arr_size): out += (expr (array_set T a i V))
ArraySet ==
  /\ apc = "sets"
  /\ arr_i < arr_size
  /\ arr_out' = Append(arr_out, [node |-> "array_set", n |-> arr_i])
  /\ arr_i' = arr_i + 1
  /\ UNCHANGED <<size_tok, count_tok, arr_size, apc>>
  /\ Frame("array")

\* return out
ArrayReturn ==
  /\ apc = "sets"
  /\ arr_i >= arr_size
  /\ apc' = "done"
  /\ UNCHANGED <<size_tok, count_tok, arr_size, arr_out, arr_i>>
  /\ Frame("array")

NextArray == ArrayCheck \/ ArraySet \/ ArrayReturn

InitArray == ArrayInit /\ Idle("array")

SpecArray == InitArray /\ [][NextArray]_vars

\* C27: ParseError is raised exactly when M differs from N; otherwise what
\* is returned is one let with array_alloc T N, then array_set for
\* i = 0, ..., N - 1 in this order.
C27_ArrayInit ==
  LET N == IntOfDigits(size_tok)
      M == IntOfDigits(count_tok)
  IN  /\ apc \notin {"idle", "check"} => (apc = "ParseError" <=> M # N)
      /\ apc = "ParseError" => arr_out = <<>>
      /\ apc = "done" =>
           /\ Len(arr_out) = N + 1
           /\ arr_out[1] = [node |-> "let", n |-> N]
           /\ \A i \in 0..(N - 1) : arr_out[i + 2] = [node |-> "array_set", n |-> i]

\* [T; 02] initialized by [V; 2]: two array_set statements were emitted
C27_Witness ==
  /\ apc = "done"
  /\ size_tok = <<0, 2>>
  /\ count_tok = <<2>>
  /\ Len(arr_out) = 3

(***************************************************************************)
(* The emitted __fd_write, for writes that do not fail.                    *)
(***************************************************************************)
\* .L_fdw_loop: cmp r10d, edx; jge .L_fdw_done; the entry at index r10d is
\* loaded (mov r8d, [r11+rax+4]); mov edx, r8d; mov eax, 1; syscall;
\* add ebx, eax; inc r10d; jmp .L_fdw_loop.  The syscall returns between 0
\* and the length asked for.
FdwLoop ==
  /\ wpc = "loop"
  /\ IF r_r10 >= r_edx
     THEN /\ wpc' = "done"
          /\ UNCHANGED <<r_edx, r_r10, r_ebx, writes>>
     ELSE LET len == iov_mem[r_r10 + 1]
          IN  \E ret \in 0..len :
                /\ writes' = Append(writes, [idx |-> r_r10, len |-> len, ret |-> ret])
                /\ r_edx' = len
                /\ r_ebx' = r_ebx + ret
                /\ r_r10' = r_r10 + 1
                /\ wpc' = wpc
  /\ UNCHANGED <<iov_mem, iov_cnt, nwritten>>
  /\ Frame("fdw")

\* .L_fdw_done: mov edi, r14d; mov esi, ebx; call __mem_store; xor eax, eax;
\* the pops; ret
FdwDone ==
  /\ wpc = "done"
  /\ nwritten' = r_ebx
  /\ wpc' = "ret"
  /\ UNCHANGED <<iov_mem, iov_cnt, r_edx, r_r10, r_ebx, writes>>
  /\ Frame("fdw")

NextFdw == FdwLoop \/ FdwDone

InitFdw == FdwInit /\ Idle("fdw")

SpecFdw == InitFdw /\ [][NextFdw]_vars

RECURSIVE SumRet(_)
SumRet(ws) == IF ws = <<>> THEN 0 ELSE Head(ws).ret + SumRet(Tail(ws))

\* C22: when __fd_write returns, it has issued iov_cnt write syscalls, the
\* i-th for entry i - 1 with that entry's length, and the dword at
\* nwritten_out is the sum of the byte counts returned.
C22_FdWriteOnePerEntry ==
  wpc = "ret" =>
    /\ Len(writes) = iov_cnt
    /\ \A i \in 1..Len(writes) :
         writes[i].idx = i - 1 /\ writes[i].len = iov_mem[i]
    /\ nwritten = SumRet(writes)

(***************************************************************************)
(* The emitted __path_open.                                                *)
(***************************************************************************)
\* cmp ecx, 0; jl .L_po_inval; cmp ecx, 4095; jg .L_po_inval;
\* .L_po_inval: mov eax, 22; ...; ret
PathOpenCheck ==
  /\ opn_pc = "check"
  /\ IF path_len < 0 \/ path_len > PathMax
     THEN /\ po_ret' = EINVAL
          /\ opn_pc' = "ret"
     ELSE /\ po_ret' = po_ret
          /\ opn_pc' = "copy"
  /\ UNCHANGED <<path_len, po_eax, buf_top, nul_at, po_syscall>>
  /\ Frame("open")

\* .L_po_copy_loop: cmp eax, edx; jge .L_po_copy_done;
\* mov byte ptr [r11+rax], bl; inc eax
PathOpenCopy ==
  /\ opn_pc = "copy"
  /\ po_eax < path_len
  /\ buf_top' = Max(buf_top, po_eax)
  /\ po_eax' = po_eax + 1
  /\ UNCHANGED <<path_len, nul_at, po_syscall, po_ret, opn_pc>>
  /\ Frame("open")

\* .L_po_copy_done: mov byte ptr [r11+rdx], 0; ...; mov eax, 257; syscall;
\* 0 is returned when openat gives a descriptor, the errno otherwise
PathOpenSyscall ==
  /\ opn_pc = "copy"
  /\ po_eax >= path_len
  /\ nul_at' = path_len
  /\ buf_top' = Max(buf_top, path_len)
  /\ po_syscall' = TRUE
  /\ po_ret' \in {0, ENOENT, EINVAL}
  /\ opn_pc' = "ret"
  /\ UNCHANGED <<path_len, po_eax>>
  /\ Frame("open")

NextOpen == PathOpenCheck \/ PathOpenCopy \/ PathOpenSyscall

InitOpen == OpenInit /\ Idle("open")

SpecOpen == InitOpen /\ [][NextOpen]_vars

\* C23: __path_open returns EINVAL without issuing openat exactly when
\* path_len < 0 or path_len >= 4095; for path_len in 0..4094 it copies
\* path_len bytes and a NUL, all inside the 4096-byte buffer.
C23_PathOpenLengthCheck ==
  opn_pc = "ret" =>
    /\ (~po_syscall /\ po_ret = EINVAL) <=> (path_len < 0 \/ path_len >= 4095)
    /\ (0 <= path_len /\ path_len <= 4094) =>
         /\ po_eax = path_len
         /\ nul_at = path_len
         /\ buf_top < 4096

(***************************************************************************)
(* parse_program_ir and the codegen's check for main.                      *)
(***************************************************************************)
\* parse_fn_ir: the (fn ...) nodes of one declaration: the function itself,
\* or name__ret__fld for each field of a struct return type
fn_irs(d) ==
  IF d.ret \in DOMAIN ProgStructs
  THEN [k \in 1..Len(ProgStructs[d.ret]) |-> IrName(d.name, ProgStructs[d.ret][k])]
  ELSE <<IrName(d.name, "")>>

\* one turn of the loop of parse_program_ir
ParseFnDecl ==
  /\ mpc = "parse"
  /\ prog_i <= Len(prog_fns)
  /\ saw_main' = (saw_main \/ prog_fns[prog_i].name = "main")
  /\ ir_fns' = ir_fns \o fn_irs(prog_fns[prog_i])
  /\ prog_i' = prog_i + 1
  /\ UNCHANGED <<prog_fns, mpc>>
  /\ Frame("main")

\* eof: if not saw_main: raise ParseError; the IR text is returned
ProgramDone ==
  /\ mpc = "parse"
  /\ prog_i > Len(prog_fns)
  /\ mpc' = IF saw_main THEN "ir" ELSE "ParseError"
  /\ UNCHANGED <<prog_fns, saw_main, ir_fns, prog_i>>
  /\ Frame("main")

\* lower_ir_to_asm_text: if "main" not in fn_names: raise LowerError
ExpectMain ==
  /\ mpc = "ir"
  /\ mpc' = IF IrName("main", "") \in Range(ir_fns) THEN "lowering" ELSE "LowerError"
  /\ UNCHANGED <<prog_fns, saw_main, ir_fns, prog_i>>
  /\ Frame("main")

NextMain == ParseFnDecl \/ ProgramDone \/ ExpectMain

InitMain == MainInit /\ Idle("main")

SpecMain == InitMain /\ [][NextMain]_vars

\* C29: the IR of an accepted program has a function named main, so the
\* codegen's check for main does not fail.
C29_IrHasMain ==
  /\ mpc \in {"ir", "lowering", "LowerError"} => IrName("main", "") \in Range(ir_fns)
  /\ mpc # "LowerError"

(***************************************************************************)
(* The instructions of an expression, executed.                            *)
(***************************************************************************)
\* a + b modulo 2^32, as a signed value
AddI32(a, b) ==
  IF a >= 0 /\ b >= 0 /\ a > MaxI32 - b
  THEN ((a - MaxI32) - 1) + ((b - MaxI32) - 1)
  ELSE IF a < 0 /\ b < 0 /\ a < MinI32 - b
  THEN ((a + MaxI32) + 1) + ((b + MaxI32) + 1)
  ELSE a + b

SubI32(a, b) ==
  IF b = MinI32 THEN AddI32(AddI32(a, MaxI32), 1) ELSE AddI32(a, 0 - b)

\* emit_binary_i32: add eax, ecx / sub eax, ecx / cmp eax, ecx; setl al;
\* movzx eax, al
emit_binary_i32(op, a, c) ==
  CASE op = "add" -> AddI32(a, c)
    [] op = "sub" -> SubI32(a, c)
    [] op = "lt" -> IF a < c THEN 1 ELSE 0

Executing(op) == bx_code # <<>> /\ Head(bx_code).op = op

\* mov eax, N
ExecMovImm ==
  /\ Executing("mov_eax")
  /\ bx_rax' = Head(bx_code).arg
  /\ bx_code' = Tail(bx_code)
  /\ UNCHANGED <<bx_expr, bx_stack, bx_rcx, bx_rdi>>
  /\ Frame("bx")

\* push rax
ExecPush ==
  /\ Executing("push")
  /\ bx_stack' = Append(bx_stack, bx_rax)
  /\ bx_code' = Tail(bx_code)
  /\ UNCHANGED <<bx_expr, bx_rax, bx_rcx, bx_rdi>>
  /\ Frame("bx")

\* pop rax / pop rdi
ExecPop ==
  /\ Executing("pop")
  /\ bx_stack # <<>>
  /\ LET top == bx_stack[Len(bx_stack)]
     IN  IF Head(bx_code).arg = "rax"
         THEN bx_rax' = top /\ bx_rdi' = bx_rdi
         ELSE bx_rdi' = top /\ bx_rax' = bx_rax
  /\ bx_stack' = SubSeq(bx_stack, 1, Len(bx_stack) - 1)
  /\ bx_code' = Tail(bx_code)
  /\ UNCHANGED <<bx_expr, bx_rcx>>
  /\ Frame("bx")

\* mov rcx, rax
ExecMovRcx ==
  /\ Executing("mov_rcx_rax")
  /\ bx_rcx' = bx_rax
  /\ bx_code' = Tail(bx_code)
  /\ UNCHANGED <<bx_expr, bx_stack, bx_rax, bx_rdi>>
  /\ Frame("bx")

\* the instruction of the binary
ExecBinOp ==
  /\ Executing("binop")
  /\ bx_rax' = emit_binary_i32(Head(bx_code).arg, bx_rax, bx_rcx)
  /\ bx_code' = Tail(bx_code)
  /\ UNCHANGED <<bx_expr, bx_stack, bx_rcx, bx_rdi>>
  /\ Frame("bx")

\* call f1: the callee returns its parameter; rcx and rdi are caller-saved
ExecCall ==
  /\ Executing("call")
  /\ bx_rax' = bx_rdi
  /\ bx_code' = Tail(bx_code)
  /\ UNCHANGED <<bx_expr, bx_stack, bx_rcx, bx_rdi>>
  /\ Frame("bx")

\* sub rsp, 8: the quadword below the stack is whatever memory holds;
\* add rsp, 8: the top quadword is dropped
ExecRsp ==
  /\ \/ /\ Executing("sub_rsp")
        /\ \E junk \in {0, 7} : bx_stack' = Append(bx_stack, junk)
     \/ /\ Executing("add_rsp")
        /\ bx_stack # <<>>
        /\ bx_stack' = SubSeq(bx_stack, 1, Len(bx_stack) - 1)
  /\ bx_code' = Tail(bx_code)
  /\ UNCHANGED <<bx_expr, bx_rax, bx_rcx, bx_rdi>>
  /\ Frame("bx")

NextBx ==
  \/ ExecMovImm
  \/ ExecPush
  \/ ExecPop
  \/ ExecMovRcx
  \/ ExecBinOp
  \/ ExecCall
  \/ ExecRsp

InitBx == BxInit /\ Idle("bx")

SpecBx == InitBx /\ [][NextBx]_vars

\* the value of an expression by direct recursive evaluation; f1 returns
\* its first argument
RECURSIVE DirectEval(_)
DirectEval(e) ==
  IF e.k = "int" THEN e.v
  ELSE IF e.k = "call" THEN DirectEval(e.args[1])
  ELSE LET a == DirectEval(e.l)
           c == DirectEval(e.r)
       IN  CASE e.op = "add" -> AddI32(a, c)
             [] e.op = "sub" -> SubI32(a, c)
             [] e.op = "lt" -> IF a < c THEN 1 ELSE 0

\* C25: when the instructions of a binary expression have run, eax holds
\* LHS OP RHS as a direct recursive evaluation gives it, and the stack is
\* as it was before the expression.
C25_BinaryIsStackMachine ==
  bx_code = <<>> /\ bx_expr.k = "binary" =>
    /\ bx_rax = DirectEval(bx_expr)
    /\ bx_stack = <<>>

(***************************************************************************)
(* An i64 binary with an i32 operand, executed.                            *)
(***************************************************************************)
\* x < y for two dwords taken as unsigned
ULess(x, y) == IF (x < 0) = (y < 0) THEN x < y ELSE y < 0

\* x + y and x - y modulo 2^64
Add64(x, y) ==
  LET lo == AddI32(x.lo, y.lo)
      carry == IF ULess(lo, x.lo) THEN 1 ELSE 0
  IN  QWord(AddI32(AddI32(x.hi, y.hi), carry), lo)

Sub64(x, y) ==
  LET borrow == IF ULess(x.lo, y.lo) THEN 1 ELSE 0
  IN  QWord(SubI32(SubI32(x.hi, y.hi), borrow), SubI32(x.lo, y.lo))

\* emit_binary_i64: add rax, rcx / sub rax, rcx
emit_binary_i64(op, x, y) == IF op = "add" THEN Add64(x, y) ELSE Sub64(x, y)

\* the LHS: mov eax, A; push rax; mov eax, B; mov rcx, rax; pop rax;
\* sub eax, ecx (a write to eax clears the high dword of rax); then the
\* push rax of the outer binary
PromoLhs ==
  /\ pm_pc = "lhs"
  /\ LET eax == emit_binary_i32("sub", pm_expr.a, pm_expr.b)
     IN  /\ pm_rax' = QWord(0, eax)
         /\ pm_stack' = Append(pm_stack, QWord(0, eax))
  /\ pm_rcx' = QWord(0, pm_expr.b)
  /\ pm_pc' = "rhs"
  /\ UNCHANGED pm_expr
  /\ Frame("promo")

\* the RHS: mov rax, V; then mov rcx, rax; pop rax
PromoRhs ==
  /\ pm_pc = "rhs"
  /\ pm_rcx' = pm_expr.v
  /\ pm_rax' = pm_stack[Len(pm_stack)]
  /\ pm_stack' = SubSeq(pm_stack, 1, Len(pm_stack) - 1)
  /\ pm_pc' = "op"
  /\ UNCHANGED pm_expr
  /\ Frame("promo")

\* emit_binary_i64(op)
PromoOp ==
  /\ pm_pc = "op"
  /\ pm_rax' = emit_binary_i64(pm_expr.op, pm_rax, pm_rcx)
  /\ pm_pc' = "done"
  /\ UNCHANGED <<pm_expr, pm_rcx, pm_stack>>
  /\ Frame("promo")

NextPromo == PromoLhs \/ PromoRhs \/ PromoOp

InitPromo == PromoInit /\ Idle("promo")

SpecPromo == InitPromo /\ [][NextPromo]_vars

\* an i32 value sign-extended to 64 bits
SignExtend(x) == QWord(IF x < 0 THEN -1 ELSE 0, x)

\* C26: the i64 operation on an i32 operand uses the operand sign-extended:
\* rax is (A - B) OP V modulo 2^64.
C26_OperandSignExtended ==
  pm_pc = "done" =>
    LET lhs == SignExtend(SubI32(pm_expr.a, pm_expr.b))
    IN  pm_rax = IF pm_expr.op = "add" THEN Add64(lhs, pm_expr.v)
                 ELSE Sub64(lhs, pm_expr.v)

(***************************************************************************)
(* The frontend writes the IR text; tokenize, parse_sexpr and parse_fn     *)
(* read it.                                                                *)
(***************************************************************************)
RECURSIVE Concat(_)
Concat(ss) == IF ss = <<>> THEN <<>> ELSE Head(ss) \o Concat(Tail(ss))

\* parse_params_ir: (params) or (params (param p ty) ...)
params_ir(ps) ==
  IF ps = <<>> THEN <<" ", "(", "params", ")", "\n">>
  ELSE <<" ", "(", "params", "\n">>
       \o Concat([i \in 1..Len(ps) |->
             <<" ", "(", "param", " ", ps[i].name, " ", ps[i].ty, ")", "\n">>])
       \o <<" ", ")", "\n">>

\* parse_fn_ir: the text of one function; its block is one return
fn_ir_text(f) ==
  <<" ", "(", "fn", " ", f.name, "\n">>
  \o params_ir(f.sig.params)
  \o <<" ", "(", "ret", " ", f.sig.ret, ")", "\n">>
  \o <<" ", "(", "block", "\n", " ", "(", "return", "\n", " ", "(">>
  \o (IF f.lit = <<>> THEN <<"int", " ", "0">> ELSE <<"string", " ">> \o f.lit)
  \o <<")", "\n", " ", ")", "\n", " ", ")", "\n", " ", ")", "\n">>

\* parse_program_ir: ParseError without a main, the text otherwise
EmitIr ==
  /\ rt_pc = "emit"
  /\ IF \E i \in 1..Len(rt_prog) : rt_prog[i].name = "main"
     THEN /\ rt_text' = <<"(", "coatl_ir", " ", "v1", "\n", " ", "(", "structs", ")",
                          "\n", " ", "(", "functions", "\n">>
                        \o Concat([i \in 1..Len(rt_prog) |-> fn_ir_text(rt_prog[i])])
                        \o <<" ", ")", "\n", ")", "\n">>
          /\ rt_pc' = "tokenize"
     ELSE /\ rt_text' = rt_text
          /\ rt_pc' = "ParseError"
  /\ rt_i' = 1
  /\ UNCHANGED <<rt_prog, rt_toks, rt_root, rt_fns>>
  /\ Frame("round")

IsSpace(c) == c \in {" ", "\n"}

\* the scan that takes the first quote for the end of the string
RECURSIVE ScanStrNoEscape(_, _, _)
ScanStrNoEscape(src, j, esc) ==
  IF j > Len(src) THEN j
  ELSE IF src[j] = Quote THEN j
  ELSE ScanStrNoEscape(src, j + 1, FALSE)

\* the inner loop of tokenize for a string: the index of the quote that
\* closes a string opened before j, or Len(src) + 1
RECURSIVE ScanStr(_, _, _)
ScanStr(src, j, esc) ==
  IF j > Len(src) THEN j
  ELSE IF esc THEN ScanStr(src, j + 1, FALSE)
  ELSE IF src[j] = Backslash THEN ScanStr(src, j + 1, TRUE)
  ELSE IF src[j] = Quote THEN j
  ELSE ScanStr(src, j + 1, FALSE)

\* the first index from j on that holds a space or a parenthesis, or
\* Len(src) + 1
RECURSIVE ScanAtom(_, _)
ScanAtom(src, j) ==
  IF j > Len(src) \/ IsSpace(src[j]) \/ src[j] \in {"(", ")"} THEN j
  ELSE ScanAtom(src, j + 1)

\* one turn of while i < n in tokenize
TokenizeStep ==
  /\ rt_pc = "tokenize"
  /\ IF rt_i > Len(rt_text)
     THEN rt_pc' = "parse" /\ UNCHANGED <<rt_i, rt_toks>>
     ELSE IF IsSpace(rt_text[rt_i])
     THEN rt_i' = rt_i + 1 /\ UNCHANGED <<rt_toks, rt_pc>>
     ELSE IF rt_text[rt_i] \in {"(", ")"}
     THEN /\ rt_toks' = Append(rt_toks, <<rt_text[rt_i]>>)
          /\ rt_i' = rt_i + 1
          /\ rt_pc' = rt_pc
     ELSE IF rt_text[rt_i] = Quote
     THEN LET j == ScanStr(rt_text, rt_i + 1, FALSE)
          IN  IF j > Len(rt_text)
              THEN rt_pc' = "ReadError" /\ UNCHANGED <<rt_i, rt_toks>>
              ELSE /\ rt_toks' = Append(rt_toks, SubSeq(rt_text, rt_i, j))
                   /\ rt_i' = j + 1
                   /\ rt_pc' = rt_pc
     ELSE LET j == ScanAtom(rt_text, rt_i)
          IN  /\ rt_toks' = Append(rt_toks, SubSeq(rt_text, rt_i, j - 1))
              /\ rt_i' = j
              /\ rt_pc' = rt_pc
  /\ UNCHANGED <<rt_prog, rt_text, rt_root, rt_fns>>
  /\ Frame("round")

AtomNode(t) == [atom |-> t]
ListNode(items) == [list |-> items]
IsList(n) == DOMAIN n = {"list"}
IsAtom(n, word) == n = AtomNode(<<word>>)

\* parse_one of parse_sexpr at index idx: the node and the index after it
RECURSIVE parse_one(_, _)
RECURSIVE parse_items(_, _, _)
parse_items(tokens, idx, acc) ==
  IF idx > Len(tokens) \/ tokens[idx] = <<")">>
  THEN [err |-> "", items |-> acc, idx |-> idx]
  ELSE LET r == parse_one(tokens, idx)
       IN  IF r.err # "" THEN [err |-> r.err, items |-> acc, idx |-> idx]
           ELSE parse_items(tokens, r.idx, Append(acc, r.node))
parse_one(tokens, idx) ==
  IF idx > Len(tokens) THEN [err |-> "ParseError", node |-> NoNode, idx |-> idx]
  ELSE IF tokens[idx] = <<"(">>
  THEN LET r == parse_items(tokens, idx + 1, <<>>)
       IN  IF r.err # "" \/ r.idx > Len(tokens)
           THEN [err |-> "ParseError", node |-> NoNode, idx |-> idx]
           ELSE [err |-> "", node |-> ListNode(r.items), idx |-> r.idx + 1]
  ELSE IF tokens[idx] = <<")">>
  THEN [err |-> "ParseError", node |-> NoNode, idx |-> idx]
  ELSE [err |-> "", node |-> AtomNode(tokens[idx]), idx |-> idx + 1]

\* parse_sexpr: the root, ParseError also for tokens after it
parse_sexpr(tokens) ==
  LET r == parse_one(tokens, 1)
  IN  IF r.err = "" /\ r.idx # Len(tokens) + 1
      THEN [err |-> "ParseError", node |-> NoNode, idx |-> r.idx]
      ELSE r

\* root = parse_sexpr(tokens)
ParseRoot ==
  /\ rt_pc = "parse"
  /\ LET r == parse_sexpr(rt_toks)
     IN  IF r.err # "" THEN rt_pc' = "ReadError" /\ rt_root' = rt_root
         ELSE rt_pc' = "recover" /\ rt_root' = r.node
  /\ UNCHANGED <<rt_prog, rt_text, rt_i, rt_toks, rt_fns>>
  /\ Frame("round")

\* parse_fn: name, (parameter name, parameter type) list and return type of
\* a (fn name (params ...) (ret type) (block ...)) node
parse_fn(n) ==
  IF ~IsList(n) THEN [err |-> "LowerError"]
  ELSE LET fn_node == n.list
       IN  IF Len(fn_node) # 5 \/ ~IsAtom(fn_node[1], "fn") \/ IsList(fn_node[2])
              \/ ~IsList(fn_node[3]) \/ ~IsList(fn_node[4]) \/ ~IsList(fn_node[5])
           THEN [err |-> "LowerError"]
           ELSE LET ps == fn_node[3].list
                    rn == fn_node[4].list
                IN  IF \/ ps = <<>> \/ ~IsAtom(ps[1], "params")
                       \/ \E i \in 2..Len(ps) :
                            \/ ~IsList(ps[i])
                            \/ Len(ps[i].list) # 3
                            \/ ~IsAtom(ps[i].list[1], "param")
                            \/ IsList(ps[i].list[2]) \/ IsList(ps[i].list[3])
                       \/ Len(rn) # 2 \/ ~IsAtom(rn[1], "ret") \/ IsList(rn[2])
                    THEN [err |-> "LowerError"]
                    ELSE [err |-> "",
                          name |-> fn_node[2].atom,
                          params |-> [i \in 1..(Len(ps) - 1) |->
                                        <<ps[i + 1].list[2].atom, ps[i + 1].list[3].atom>>],
                          ret |-> rn[2].atom]

\* the root is (coatl_ir v1 (structs) (functions ...))
RootShape(n) ==
  /\ IsList(n)
  /\ Len(n.list) = 4
  /\ IsAtom(n.list[1], "coatl_ir")
  /\ IsAtom(n.list[2], "v1")
  /\ n.list[3] = ListNode(<<AtomNode(<<"structs">>)>>)
  /\ IsList(n.list[4])
  /\ n.list[4].list # <<>>
  /\ IsAtom(n.list[4].list[1], "functions")

\* lower_ir_to_asm_text: the check of the root, then
\* parsed = [parse_fn(as_list(f)) for f in functions[1:]]
RecoverFns ==
  /\ rt_pc = "recover"
  /\ IF ~(IsList(rt_root) /\ Len(rt_root.list) = 4 /\ IsAtom(rt_root.list[1], "coatl_ir")
          /\ IsAtom(rt_root.list[2], "v1") /\ IsList(rt_root.list[3])
          /\ IsList(rt_root.list[4]))
     THEN rt_pc' = "LowerError" /\ rt_fns' = rt_fns
     ELSE LET functions == rt_root.list[4].list
              parsed == [i \in 1..(Len(functions) - 1) |-> parse_fn(functions[i + 1])]
          IN  IF \E i \in 1..Len(parsed) : parsed[i].err # ""
              THEN rt_pc' = "LowerError" /\ rt_fns' = rt_fns
              ELSE rt_pc' = "done" /\ rt_fns' = parsed
  /\ UNCHANGED <<rt_prog, rt_text, rt_i, rt_toks, rt_root>>
  /\ Frame("round")

NextRound == EmitIr \/ TokenizeStep \/ ParseRoot \/ RecoverFns

InitRound == RoundInit /\ Idle("round")

SpecRound == InitRound /\ [][NextRound]_vars

\* what the frontend emitted for function f
EmittedSig(f) ==
  [err |-> "",
   name |-> <<f.name>>,
   params |-> [i \in 1..Len(f.sig.params) |->
                 <<<<f.sig.params[i].name>>, <<f.sig.params[i].ty>>>>],
   ret |-> <<f.sig.ret>>]

\* C21: the text of an accepted program is read without an error, the root
\* is (coatl_ir v1 (structs) (functions ...)), and parse_fn gives, in
\* emission order, the names, parameter lists and return types emitted.
C21_IrTextRoundTrip ==
  /\ rt_pc \in {"idle", "emit", "tokenize", "parse", "recover", "done", "ParseError"}
  /\ rt_pc = "ParseError" => rt_text = <<>>
  /\ rt_pc \in {"recover", "done"} => RootShape(rt_root)
  /\ rt_pc = "done" =>
       rt_fns = [i \in 1..Len(rt_prog) |-> EmittedSig(rt_prog[i])]

\* two functions were recovered, the first returning a literal with an
\* escaped quote followed by a parenthesis
C21_Witness ==
  /\ rt_pc = "done"
  /\ Len(rt_fns) = 2
  /\ rt_prog[1].lit = <<Quote, Backslash, Quote, ")", Quote>>
  /\ rt_prog[2].lit = <<Quote, "a", " ", "(", "b", Quote>>
  /\ rt_fns[2].params # <<>>

\* C2: at every call instruction the number of 8-byte slots below the aligned
\* frame (what stack_depth counts: pushes, padding, stack arguments) is even,
\* so that rsp is 16-byte aligned.
C2_CallAligned ==
  pc = "at_call" => stack_depth % 2 = 0

\* C24: a function whose body leaves stack_depth different from 0 is not
\* emitted: the epilogue is reached only with stack_depth = 0.
C24_DepthMismatchRaises ==
  pc = "exit" => stack_depth = 0

AtStmtBoundary ==
  \/ pc = "exit"
  \/ pc = "body" /\ (todo = <<>> \/ Head(todo).op = "stmt")

====
